---- MODULE Spec2Model ----
(***************************************************************************)
(* The assertion tracker of PyTestSuite Pro (core/assertions.py) and the   *)
(* test boundary that drives it (BaseTest.setup_method / teardown_method   *)
(* in core/base_test.py, the `assertions` fixture in conftest.py), and     *)
(* the response accessor of APIActions (keywords/api_actions.py).          *)
(*                                                                         *)
(* One AssertionManager, `assertion_manager`, exists per process.  Its     *)
(* fields are the variables `results` and `test_context`.  Tests run on    *)
(* the threads of Threads; `pc` is each test's position in the runner's    *)
(* protocol  setup_method, fixture setup, body, fixture teardown,          *)
(* teardown_method.  Texts (messages) are sequences of string tokens, so   *)
(* that "contains" is decided by the tokens formatting puts in a text.     *)
(***************************************************************************)
EXTENDS Naturals, Sequences, FiniteSets, TLC

VARIABLES
    results,       \* AssertionManager.results: the list of AssertionResult
    test_context,  \* AssertionManager._test_context: None or a string
    pc,            \* pc[t]: where thread t's test stands
    useFixture,    \* useFixture[t]: the test requests the `assertions` fixture
    report,        \* report[t]: what the runner has recorded for t's test
    own,           \* history: the records t's test made since its last reset()
    ownCtx,        \* history: the context t's test set since its last reset()
    prior,         \* history: prior[t] holds when the tracker still held a
                   \* failing soft record as t's test was set up
    ret,           \* the most recent tracker call of a running test: its
                   \* name, the call before it, its caller, whether it raised
                   \* and with what message; NoCall once the body has
                   \* returned or the test has been collected
    summaryOut,    \* what the test body holds from its latest get_summary(),
                   \* NoSummary once a record* or reset() call has followed it
                   \* or the body has ended
    last_response, \* APIActions.last_response: None or the latest response
    apiRet,        \* the latest get_response_status_code call: the response
                   \* passed, last_response as it stood, and the outcome
    helper,        \* the latest comparison helper call of a test still in
                   \* its body or ended by it: its name, caller, arguments,
                   \* level, and the number of records before it
    instances,     \* DriverManager._instances: the dict, as the list of its
                   \* (key, instance) items in insertion order
    lock,          \* DriverManager._lock: 0, or the thread that holds it
    managers,      \* the DriverManager objects created so far: driver and
                   \* wait, and as history the creating thread, the key and
                   \* whether it was created since the latest clearing
    at,            \* at[t]: where thread t stands in a DriverManager call
    driverRet,     \* the latest effect or outcome of a DriverManager call
    cached_data,   \* DataActions.cached_data: the dict, a function on its keys
    cacheRet,      \* the latest cache call of DataActions: its name, key,
                   \* data, outcome, and the dict as it stood before
    current_env,   \* EnvironmentManager.current_env
    TEST_ENV,      \* os.environ["TEST_ENV"], None when unset
    initial_env,   \* history: current_env as __init__ set it
    envRet,        \* the latest EnvironmentManager call: its name, argument,
                   \* outcome, and current_env as it stood before
    click          \* the BasePage.click call in progress or just ended: where
                   \* it stands, the loop variable, the retryable errors
                   \* caught so far, how the element was clicked, the error
                   \* raised, and the JavaScript clicks made

trackerVars == <<results, test_context, pc, useFixture, report, own, ownCtx, prior, ret, summaryOut>>

apiVars == <<last_response, apiRet>>

driverVars == <<instances, lock, managers, at, driverRet>>

clickVars == <<click>>

cacheVars == <<cached_data, cacheRet>>

envVars == <<current_env, TEST_ENV, initial_env, envRet>>

sideVars == <<driverVars, clickVars, cacheVars, envVars>>

\* What the DriverManager calls leave alone.
notDriver == <<trackerVars, apiVars, helper, clickVars, cacheVars, envVars>>

\* What BasePage.click leaves alone.
notClick == <<trackerVars, apiVars, helper, driverVars, cacheVars, envVars>>

\* What the cache calls of DataActions leave alone.
notCache == <<trackerVars, apiVars, helper, driverVars, clickVars, envVars>>

\* What the EnvironmentManager calls leave alone.
notEnv == <<trackerVars, apiVars, helper, driverVars, clickVars, cacheVars>>

vars == <<results, test_context, pc, useFixture, report, own, ownCtx, prior, ret, summaryOut,
          last_response, apiRet, helper, instances, lock, managers, at, driverRet,
          cached_data, cacheRet, current_env, TEST_ENV, initial_env, envRet, click>>

----------------------------------------------------------------------------
(* Bounds and input domains *)

\* Longest list of records the model lets one tracker hold.
MaxRecords == 2

\* Longest list of records when two tests run at once (SpecConc).
MaxConcRecords == 1

\* Longest list of records in the runs over the formatting inputs (SpecFormat).
MaxFormatRecords == 1

\* Longest list of records in the scripted test bodies (SpecScript).
MaxScriptRecords == 3

\* Longest list of records in the runs over the comparison helpers (SpecHelpers).
MaxHelperRecords == 1

\* Longest list of records in the runs over the assertion keywords (SpecKeywords).
MaxKeywordRecords == 1

\* Threads that run tests in the process.
Threads == {1, 2}

\* Python's None.  No string of the program equals it.
None == "None"

\* AssertionLevel
HARD == "HARD"
SOFT == "SOFT"
WARNING == "WARNING"

\* Arguments (message, expected, actual) the test bodies pass.
Args ==
    { [message |-> "m1", expected |-> None, actual |-> None],
      [message |-> "m2", expected |-> "1",  actual |-> "2"] }

\* Arguments of the runs over the formatting inputs (SpecFormat): each of
\* expected and actual left out or given.
FormatArgs ==
    { [message |-> "bad", expected |-> e, actual |-> a] :
        e \in {None, "1"}, a \in {None, "2"} }

\* The scripted test bodies (SpecScript): the k-th record* call of a test
\* carries the k-th of these messages and no expected / actual.
ScriptMessages == <<"soft1", "soft2", "soft3", "soft4">>

\* Python values the test bodies pass to the comparison helpers: the
\* integers 3 and 42, and the list [1, 2, 3], kept by its length.
PyInt(n) == [type |-> "int", n |-> n]

PyList123 == [type |-> "list", n |-> 3]

PyValues == {PyInt(3), PyInt(42), PyList123}

\* The level argument of a helper; AssertionLevel.HARD when left out.
Levels == {HARD, SOFT, WARNING}

\* The message argument of a helper: left out (None), so that the helper
\* builds its default message.
HelperMessages == {None}

\* HTTP status codes the server answers with.
StatusCodes == {200, 201, 404, 422, 500}

\* What obtaining the actual value of a keyword comes to: a value returned,
\* or an exception raised (its str() kept in `value`).
KeywordOutcomes ==
    { [raised |-> FALSE, value |-> "Welcome"],
      [raised |-> FALSE, value |-> "Goodbye"],
      [raised |-> TRUE,  value |-> "Message: element not found"] }

\* The expected value passed to a keyword.
KeywordExpected == {"Welcome"}

\* The two messages of each keyword: of its comparison, and of a failed
\* retrieval (in front of the str() of the exception).
KeywordTexts(op) ==
    CASE op = "assert_element_text" ->
            [mismatch |-> "Element text mismatch at loc",
             failed |-> "Failed to get element text for assertion: "]
      [] op = "assert_element_attribute" ->
            [mismatch |-> "Element attribute 'attr' mismatch at loc",
             failed |-> "Failed to get element attribute for assertion: "]
      [] op = "assert_api_json_value" ->
            [mismatch |-> "JSON value at 'path' should be Welcome",
             failed |-> "Failed to get JSON value for assertion: "]

\* Most DriverManager objects created in a run of concurrent threads
\* (SpecRegistry).
MaxManagers == 2

\* Most DriverManager objects created in a run of whole calls (SpecManager).
MaxSessionManagers == 1

\* threading.current_thread().ident of the threads that use drivers.
ThreadIdents == {1, 12}

\* Browser names passed to get_instance.
BrowserNames == {"chrome", "firefox"}

\* What starting a browser session comes to.
StartOutcomes == {"started", "create_raises", "configure_raises"}

\* Cache keys passed to the cache calls of DataActions.
CacheKeys == {"", "users", "token"}

\* Data cached.
CacheData == {1, 2}

\* The keys of EnvironmentManager.environments.
Environments == {"dev", "staging", "prod"}

\* Environment names passed to set_environment, given as --env, or found
\* in TEST_ENV.
EnvNames == {"dev", "DEV", "staging", "Staging", "prod", "PROD", "qa", "QA"}

\* str.lower() on the names above.
Lower(name) ==
    CASE name = "DEV" -> "dev"
      [] name = "Staging" -> "staging"
      [] name = "PROD" -> "prod"
      [] name = "QA" -> "qa"
      [] OTHER -> name

\* max_attempts of BasePage.click.
max_attempts == 3

\* An exception raised in attempt `attempt` (the loop variable) by `step`.
Error(kind, step, attempt) == [kind |-> kind, step |-> step, attempt |-> attempt]

\* The exception classes that click() catches and retries after.
Retryable == {"StaleElementReferenceException", "ElementNotInteractableException"}

\* What one pass through the try block of click() comes to: the element
\* is clicked, or one of its three calls raises.
AttemptOutcomes ==
    { [kind |-> None, step |-> "click"],
      [kind |-> "StaleElementReferenceException", step |-> "scroll_to_element"],
      [kind |-> "StaleElementReferenceException", step |-> "click"],
      [kind |-> "ElementNotInteractableException", step |-> "click"],
      [kind |-> "NoSuchElementException", step |-> "find_clickable_element"],
      [kind |-> "ElementClickInterceptedException", step |-> "click"] }

\* What click_with_javascript comes to.
JavascriptOutcomes ==
    { [kind |-> None, step |-> "execute_script"],
      [kind |-> "NoSuchElementException", step |-> "find_element"],
      [kind |-> "JavascriptException", step |-> "execute_script"] }

\* Inputs of the two-thread runs (SpecConc).
ConcArgs == { [message |-> "m1", expected |-> None, actual |-> None] }

ConcStackNames == {"unknown_test"}

\* "<Class>.<method>" of the test each thread runs (BaseTest.setup_method).
ClassMethod(t) == IF t = 1 THEN "K.test_a" ELSE "K.test_b"

\* What the fixture's walk over inspect.stack() can come back with.
StackNames == {"unknown_test", "test_fn"}

\* Names a caller passes to set_test_context directly; "" is falsy in Python.
CtxNames == {"", "test_fn"}

----------------------------------------------------------------------------
(* Values *)

\* AssertionResult(level, passed, message, expected, actual); soft_assert
\* fills traceback_info of a failing record before appending it.
AssertionResult(level, passed, message, expected, actual) ==
    [level |-> level, passed |-> passed, message |-> message,
     expected |-> expected, actual |-> actual, traceback_info |-> None]

\* AssertionSummary()
AssertionSummary ==
    [total |-> 0, passed |-> 0, failed |-> 0, warnings |-> 0,
     hard_failures |-> <<>>, soft_failures |-> <<>>, warning_failures |-> <<>>]

NoSummary == [total |-> 0, none |-> TRUE]

NoText == <<>>

\* Python truthiness of _test_context: None and "" are falsy.
Truthy(c) == c # None /\ c # ""

\* _format_error_message(result), with self._test_context = ctx
FormatErrorMessageEither(result, ctx) ==
    LET base == <<result.message>>
        msg == IF result.expected # None \/ result.actual # None
               THEN base \o <<"Expected:", result.expected, "Actual:", result.actual>>
               ELSE base
    IN  IF Truthy(ctx) THEN <<"[", ctx, "]">> \o msg ELSE msg

FormatErrorMessage(result, ctx) ==
    LET base == <<result.message>>
        msg == IF result.expected # None /\ result.actual # None
               THEN base \o <<"Expected:", result.expected, "Actual:", result.actual>>
               ELSE base
    IN  IF Truthy(ctx) THEN <<"[", ctx, "]">> \o msg ELSE msg

\* One iteration of get_summary's loop.
SummaryStepWarningsApart(s, result) ==
    LET s1 == [s EXCEPT !.total = @ + 1]
    IN  IF result.passed
        THEN [s1 EXCEPT !.passed = @ + 1]
        ELSE IF result.level = HARD
        THEN [s1 EXCEPT !.failed = @ + 1, !.hard_failures = Append(@, result)]
        ELSE IF result.level = SOFT
        THEN [s1 EXCEPT !.failed = @ + 1, !.soft_failures = Append(@, result)]
        ELSE [s1 EXCEPT !.warnings = @ + 1,
                        !.warning_failures = Append(@, result)]

SummaryStep(s, result) ==
    LET s1 == [s EXCEPT !.total = @ + 1]
    IN  IF result.passed
        THEN [s1 EXCEPT !.passed = @ + 1]
        ELSE LET s2 == [s1 EXCEPT !.failed = @ + 1]
             IN  IF result.level = HARD
                 THEN [s2 EXCEPT !.hard_failures = Append(@, result)]
                 ELSE IF result.level = SOFT
                 THEN [s2 EXCEPT !.soft_failures = Append(@, result)]
                 ELSE [s2 EXCEPT !.warnings = @ + 1,
                                 !.warning_failures = Append(@, result)]

RECURSIVE SummaryLoop(_, _, _)
SummaryLoop(rs, i, s) ==
    IF i > Len(rs) THEN s ELSE SummaryLoop(rs, i + 1, SummaryStep(s, rs[i]))

\* get_summary() over the list rs
get_summary(rs) == SummaryLoop(rs, 1, AssertionSummary)

\* "\n".join([f"  - {msg}" ...]) over the soft failures
RECURSIVE FailureLinesReversed(_, _)
FailureLinesReversed(fs, ctx) ==
    IF fs = <<>> THEN <<>>
    ELSE FailureLinesReversed(Tail(fs), ctx) \o <<"-">> \o FormatErrorMessage(Head(fs), ctx)

RECURSIVE FailureLines(_, _)
FailureLines(fs, ctx) ==
    IF fs = <<>> THEN <<>>
    ELSE <<"-">> \o FormatErrorMessage(Head(fs), ctx) \o FailureLines(Tail(fs), ctx)

\* finalize_assertions: whether it calls pytest.fail
FinalizeRaisesOnAnyFailure(summary) == summary.failed > 0

FinalizeRaises(summary) == summary.soft_failures # <<>>

\* finalize_assertions: the message it fails with
FinalizeMessageFirstOnly(summary, ctx) ==
    <<"Test had", ToString(Len(summary.soft_failures)), "soft assertion failure(s):">>
        \o FailureLines(SubSeq(summary.soft_failures, 1, 1), ctx)

FinalizeMessage(summary, ctx) ==
    <<"Test had", ToString(Len(summary.soft_failures)), "soft assertion failure(s):">>
        \o FailureLines(summary.soft_failures, ctx)

\* f"{x}" of a Python value, and of a bool
Str(x) == IF x.type = "int" THEN ToString(x.n) ELSE "[1, 2, 3]"

BoolStr(b) == IF b THEN "True" ELSE "False"

\* actual == expected
PyEq(a, b) == a = b

\* `item in container` raises TypeError unless container is iterable.
ContainsDefined(container, item) == container.type = "list"

\* item in [1, 2, 3]
PyIn(item, container) == item.type = "int" /\ item.n \in 1..container.n

\* a > b and a < b raise TypeError between an int and a list.
Orderable(a, b) == a.type = b.type

\* a > b, a < b for two ints, or for [1, 2, 3] and itself
PyGt(a, b) == a.n > b.n

PyLt(a, b) == a.n < b.n

\* len(x) raises TypeError for an int.
HasLen(x) == x.type = "list"

PyLen(x) == x.n

\* str(e) of the TypeError an operator raises
OrderTypeError(op, a, b) ==
    "'" \o op \o "' not supported between instances of '" \o a.type
        \o "' and '" \o b.type \o "'"

LenTypeError(x) == "object of type '" \o x.type \o "' has no len()"

\* text contains the token tok
HasToken(text, tok) == \E i \in 1..Len(text) : text[i] = tok

Failing(rs, level) ==
    {i \in 1..Len(rs) : ~rs[i].passed /\ rs[i].level = level}

----------------------------------------------------------------------------
(* The runner's record of a test *)

NoReport ==
    [call |-> "none", cause |-> "none", callMsg |-> NoText,
     teardown |-> "none", tdMsg |-> NoText]

\* No response: APIActions.last_response before any request, and the
\* `response` argument left out.
NoResponse == [status_code |-> 0, none |-> TRUE]

\* A requests.Response with this status code.
Response(code) == [status_code |-> code, none |-> FALSE]

Responses == {Response(code) : code \in StatusCodes}

\* Python truthiness of a `response` value: None is falsy, and bool() of a
\* requests.Response is its `ok`, false for the status codes 400 to 599.
ResponseTruthy(r) == r # NoResponse /\ r.status_code < 400

NoApiCall == [kind |-> "none", passed |-> NoResponse, had |-> NoResponse, value |-> 0]

\* Where a thread stands: in no DriverManager call.
Idle == [op |-> "idle", key |-> "", pos |-> 0, size |-> 0]

\* No DriverManager call yet.
NoDriverCall ==
    [op |-> "none", thread |-> 0, instance |-> 0, raised |-> FALSE, value |-> None,
     created |-> FALSE, before |-> None, quit_raises |-> FALSE]

\* {}: the dict without keys.
EmptyDict == [k \in {} |-> 0]

\* No cache call yet.
NoCacheCall == [op |-> "none", key |-> None, data |-> 0, raised |-> FALSE, value |-> 0,
                before |-> EmptyDict]

\* No EnvironmentManager call yet.
NoEnvCall == [op |-> "none", name |-> None, raised |-> FALSE, before |-> None]

\* No error object.
NoError == [kind |-> None, step |-> None, attempt |-> 0]

\* No click() call yet.
NoClick ==
    [at |-> "idle", attempt |-> 0, errors |-> <<>>, clicked |-> None,
     raised |-> NoError, js |-> 0, js_error |-> NoError]

NoHelper == [op |-> "none", t |-> 0, a |-> 0, b |-> 0, level |-> "none", before |-> 0]

\* A helper call by thread t with arguments a and b.
HelperCall(op, t, a, b, level) ==
    [op |-> op, t |-> t, a |-> a, b |-> b, level |-> level, before |-> Len(results)]

NoCall == [op |-> "none", prev |-> "other", t |-> 0, raised |-> FALSE, msg |-> NoText]

\* The call before is kept as "reset", "get_summary" or "other".
Call(op, prev, t, raised, msg) ==
    [op |-> op,
     prev |-> IF prev \in {"reset", "get_summary"} THEN prev ELSE "other",
     t |-> t, raised |-> raised, msg |-> msg]

\* Where the runner goes when a test body ends: fixture finalizers first.
AfterBody(t) == IF useFixture[t] THEN "fixture_teardown" ELSE "teardown_method"

Init ==
    /\ results = <<>>
    /\ test_context = None
    /\ pc = [t \in Threads |-> "idle"]
    /\ useFixture = [t \in Threads |-> FALSE]
    /\ report = [t \in Threads |-> NoReport]
    /\ own = [t \in Threads |-> <<>>]
    /\ ownCtx = [t \in Threads |-> None]
    /\ prior = [t \in Threads |-> FALSE]
    /\ ret = NoCall
    /\ summaryOut = NoSummary
    /\ last_response = NoResponse
    /\ apiRet = NoApiCall
    /\ helper = NoHelper
    /\ instances = <<>>
    /\ lock = 0
    /\ managers = <<>>
    /\ at = [t \in ThreadIdents |-> Idle]
    /\ driverRet = NoDriverCall
    /\ click = NoClick
    /\ cached_data = EmptyDict
    /\ cacheRet = NoCacheCall
    /\ TEST_ENV = None
    /\ current_env = "dev"
    /\ initial_env = current_env
    /\ envRet = NoEnvCall

----------------------------------------------------------------------------
(* AssertionManager operations *)

\* reset(): self.results.clear(); self._test_context = None
resetKeepsResults == [results |-> results, test_context |-> None]

resetKeepsContext == [results |-> <<>>, test_context |-> test_context]

reset == [results |-> <<>>, test_context |-> None]

\* hard_assert: the record is appended (line 91) before the condition is
\* looked at (line 93), so it is appended whatever the condition.
HardAppendsOnlyPassing(condition) == condition

HardAppends(condition) == TRUE

\* hard_assert: pytest.fail is reached exactly when the condition is false.
HardNeverFails(condition) == FALSE

HardFails(condition) == ~condition

\* soft_assert: traceback.format_stack() is stored when the condition is false.
SoftTracebackAlways(condition) == "stack"

SoftTraceback(condition) == IF ~condition THEN "stack" ELSE None

\* The test body of thread t ends with pytest's Failed carrying msg.
BodyFailed(t, cause, msg) ==
    /\ pc' = [pc EXCEPT ![t] = AfterBody(t)]
    /\ report' = [report EXCEPT ![t].call = "failed", ![t].cause = cause,
                                ![t].callMsg = msg]

\* A record* call by thread t ends: result is what it built.
RecordedInFront(t, appended, result) ==
    /\ results' = IF appended THEN <<result>> \o results ELSE results
    /\ own' = [own EXCEPT ![t] = Append(@, result)]
    /\ summaryOut' = NoSummary
    /\ UNCHANGED <<test_context, useFixture, ownCtx, prior>>

Recorded(t, appended, result) ==
    /\ results' = IF appended THEN Append(results, result) ELSE results
    /\ own' = [own EXCEPT ![t] = Append(@, result)]
    /\ summaryOut' = NoSummary
    /\ UNCHANGED <<test_context, useFixture, ownCtx, prior>>

\* BaseTest.setup_method: assertion_manager.reset(), then
\* set_test_context("<Class>.<method>").  fixture: the test asks for `assertions`.
SetupMethod(t, fixture) ==
    /\ pc[t] = "idle"
    /\ results' = reset.results
    /\ test_context' = ClassMethod(t)
    /\ pc' = [pc EXCEPT ![t] = IF fixture THEN "fixture_setup" ELSE "body"]
    /\ useFixture' = [useFixture EXCEPT ![t] = fixture]
    /\ report' = [report EXCEPT ![t] = NoReport]
    /\ own' = [own EXCEPT ![t] = <<>>]
    /\ ownCtx' = [ownCtx EXCEPT ![t] = ClassMethod(t)]
    /\ prior' = [prior EXCEPT ![t] = Failing(results, SOFT) # {}]
    /\ ret' = Call("set_test_context", "reset", t, FALSE, NoText)
    /\ summaryOut' = NoSummary

\* The `assertions` fixture up to its yield: reset(), the stack walk,
\* set_test_context(test_name).
FixtureSetup(t, test_name) ==
    /\ pc[t] = "fixture_setup"
    /\ results' = reset.results
    /\ test_context' = test_name
    /\ pc' = [pc EXCEPT ![t] = "body"]
    /\ own' = [own EXCEPT ![t] = <<>>]
    /\ ownCtx' = [ownCtx EXCEPT ![t] = test_name]
    /\ ret' = Call("set_test_context", "reset", t, FALSE, NoText)
    /\ summaryOut' = NoSummary
    /\ UNCHANGED <<useFixture, report, prior>>

\* assertion_manager.reset() called from a test body.
Reset(t) ==
    /\ pc[t] = "body"
    /\ results' = reset.results
    /\ test_context' = reset.test_context
    /\ own' = [own EXCEPT ![t] = <<>>]
    /\ ownCtx' = [ownCtx EXCEPT ![t] = None]
    /\ ret' = Call("reset", ret.op, t, FALSE, NoText)
    /\ summaryOut' = NoSummary
    /\ UNCHANGED <<pc, useFixture, report, prior>>

\* assertion_manager.set_test_context(test_name) called from a test body.
SetTestContext(t, test_name) ==
    /\ pc[t] = "body"
    /\ test_context' = test_name
    /\ ownCtx' = [ownCtx EXCEPT ![t] = test_name]
    /\ ret' = Call("set_test_context", ret.op, t, FALSE, NoText)
    /\ UNCHANGED <<results, pc, useFixture, report, own, prior, summaryOut>>

\* hard_assert(condition, message, expected, actual)
HardAssert(t, condition, message, expected, actual) ==
    LET result == AssertionResult(HARD, condition, message, expected, actual)
        error_msg == FormatErrorMessage(result, test_context)
    IN  /\ pc[t] = "body"
        /\ Recorded(t, HardAppends(condition), result)
        /\ IF HardFails(condition)
           THEN /\ ret' = Call("hard_assert", ret.op, t, TRUE, error_msg)
                /\ BodyFailed(t, "hard", error_msg)
           ELSE /\ ret' = Call("hard_assert", ret.op, t, FALSE, NoText)
                /\ UNCHANGED <<pc, report>>

\* soft_assert(condition, message, expected, actual)
SoftAssertStopping(t, condition, message, expected, actual) ==
    LET result == [AssertionResult(SOFT, condition, message, expected, actual)
                      EXCEPT !.traceback_info = SoftTraceback(condition)]
        error_msg == FormatErrorMessage(result, test_context)
    IN  /\ pc[t] = "body"
        /\ Recorded(t, TRUE, result)
        /\ IF ~condition
           THEN /\ ret' = Call("soft_assert", ret.op, t, TRUE, error_msg)
                /\ BodyFailed(t, "soft", error_msg)
           ELSE /\ ret' = Call("soft_assert", ret.op, t, FALSE, NoText)
                /\ UNCHANGED <<pc, report>>

SoftAssert(t, condition, message, expected, actual) ==
    LET result == [AssertionResult(SOFT, condition, message, expected, actual)
                      EXCEPT !.traceback_info = SoftTraceback(condition)]
    IN  /\ pc[t] = "body"
        /\ Recorded(t, TRUE, result)
        /\ ret' = Call("soft_assert", ret.op, t, FALSE, NoText)
        /\ UNCHANGED <<pc, report>>

\* warning_assert(condition, message, expected, actual)
WarningAssert(t, condition, message, expected, actual) ==
    LET result == AssertionResult(WARNING, condition, message, expected, actual)
    IN  /\ pc[t] = "body"
        /\ Recorded(t, TRUE, result)
        /\ ret' = Call("warning_assert", ret.op, t, FALSE, NoText)
        /\ UNCHANGED <<pc, report>>

\* The `if level == HARD / elif level == SOFT / else` at the end of a helper.
Dispatch(t, level, condition, message, expected, actual) ==
    IF level = HARD THEN HardAssert(t, condition, message, expected, actual)
    ELSE IF level = SOFT THEN SoftAssert(t, condition, message, expected, actual)
    ELSE WarningAssert(t, condition, message, expected, actual)

\* A TypeError leaves helper op and the test body of thread t uncaught.
RaisedTypeError(t, op, text) ==
    /\ pc[t] = "body"
    /\ ret' = Call(op, ret.op, t, TRUE, <<"TypeError:", text>>)
    /\ BodyFailed(t, "TypeError", <<"TypeError:", text>>)
    /\ UNCHANGED <<results, test_context, useFixture, own, ownCtx, prior, summaryOut>>

\* assert_equals(actual, expected, message, level)
AssertEquals(t, actual, expected, message, level) ==
    /\ helper' = HelperCall("assert_equals", t, actual, expected, level)
    /\ LET msg == IF message = None
                  THEN "Expected " \o Str(expected) \o ", but got " \o Str(actual)
                  ELSE message
           condition == PyEq(actual, expected)
       IN  Dispatch(t, level, condition, msg, Str(expected), Str(actual))

\* assert_not_equals(actual, expected, message, level)
AssertNotEquals(t, actual, expected, message, level) ==
    /\ helper' = HelperCall("assert_not_equals", t, actual, expected, level)
    /\ LET msg == IF message = None
                  THEN "Expected " \o Str(actual) \o " to not equal " \o Str(expected)
                  ELSE message
           condition == ~PyEq(actual, expected)
       IN  Dispatch(t, level, condition, msg, "!= " \o Str(expected), Str(actual))

\* assert_contains(container, item, message, level)
AssertContains(t, container, item, message, level) ==
    /\ helper' = HelperCall("assert_contains", t, container, item, level)
    /\ LET msg == IF message = None
                  THEN "Expected " \o Str(container) \o " to contain " \o Str(item)
                  ELSE message
           condition == IF ContainsDefined(container, item)
                        THEN PyIn(item, container)
                        ELSE FALSE
       IN  Dispatch(t, level, condition, msg, "contains " \o Str(item), Str(container))

\* assert_true(condition, message, level)
AssertTrue(t, condition, message, level) ==
    /\ helper' = HelperCall("assert_true", t, condition, condition, level)
    /\ LET msg == IF message = None
                  THEN "Expected condition to be True, but was " \o BoolStr(condition)
                  ELSE message
       IN  Dispatch(t, level, condition, msg, "True", BoolStr(condition))

\* assert_false(condition, message, level)
AssertFalse(t, condition, message, level) ==
    /\ helper' = HelperCall("assert_false", t, condition, condition, level)
    /\ LET msg == IF message = None
                  THEN "Expected condition to be False, but was " \o BoolStr(condition)
                  ELSE message
           is_false == ~condition
       IN  Dispatch(t, level, is_false, msg, "False", BoolStr(condition))

\* assert_greater_than(actual, expected, message, level): `actual > expected`
\* stands outside any try.
AssertGreaterThan(t, actual, expected, message, level) ==
    /\ helper' = HelperCall("assert_greater_than", t, actual, expected, level)
    /\ LET msg == IF message = None
                  THEN "Expected " \o Str(actual) \o " to be greater than " \o Str(expected)
                  ELSE message
       IN  IF Orderable(actual, expected)
           THEN Dispatch(t, level, PyGt(actual, expected), msg, "> " \o Str(expected), Str(actual))
           ELSE RaisedTypeError(t, "assert_greater_than", OrderTypeError(">", actual, expected))

\* assert_less_than(actual, expected, message, level): `actual < expected`
\* stands outside any try.
AssertLessThan(t, actual, expected, message, level) ==
    /\ helper' = HelperCall("assert_less_than", t, actual, expected, level)
    /\ LET msg == IF message = None
                  THEN "Expected " \o Str(actual) \o " to be less than " \o Str(expected)
                  ELSE message
       IN  IF Orderable(actual, expected)
           THEN Dispatch(t, level, PyLt(actual, expected), msg, "< " \o Str(expected), Str(actual))
           ELSE RaisedTypeError(t, "assert_less_than", OrderTypeError("<", actual, expected))

\* assert_length(container, expected_length, message, level): len() and the
\* dispatch stand in a try whose `except TypeError` records a failure.
AssertLengthUncaught(t, container, expected_length, message, level) ==
    /\ helper' = HelperCall("assert_length", t, container, expected_length, level)
    /\ IF HasLen(container)
       THEN LET actual_length == PyLen(container)
                msg == IF message = None
                       THEN "Expected length " \o ToString(expected_length)
                               \o ", but got " \o ToString(actual_length)
                       ELSE message
            IN  Dispatch(t, level, actual_length = expected_length, msg,
                         ToString(expected_length), ToString(actual_length))
       ELSE RaisedTypeError(t, "assert_length", LenTypeError(container))

AssertLength(t, container, expected_length, message, level) ==
    /\ helper' = HelperCall("assert_length", t, container, expected_length, level)
    /\ IF HasLen(container)
       THEN LET actual_length == PyLen(container)
                msg == IF message = None
                       THEN "Expected length " \o ToString(expected_length)
                               \o ", but got " \o ToString(actual_length)
                       ELSE message
            IN  Dispatch(t, level, actual_length = expected_length, msg,
                         ToString(expected_length), ToString(actual_length))
       ELSE LET error_msg == "Object " \o Str(container) \o " has no length: "
                                \o LenTypeError(container)
            IN  Dispatch(t, level, FALSE, error_msg, None, None)

\* get_summary() called from a test body.
GetSummaryClearing(t) ==
    /\ pc[t] = "body"
    /\ summaryOut' = get_summary(results)
    /\ results' = <<>>
    /\ ret' = Call("get_summary", ret.op, t, FALSE, NoText)
    /\ UNCHANGED <<test_context, pc, useFixture, report, own, ownCtx, prior>>

GetSummary(t) ==
    /\ pc[t] = "body"
    /\ summaryOut' = get_summary(results)
    /\ ret' = Call("get_summary", ret.op, t, FALSE, NoText)
    /\ UNCHANGED <<results, test_context, pc, useFixture, report, own, ownCtx, prior>>

\* finalize_assertions() called from a test body.
FinalizeAssertionsClearing(t) ==
    LET summary == get_summary(results)
        error_msg == FinalizeMessage(summary, test_context)
    IN  /\ pc[t] = "body"
        /\ IF FinalizeRaises(summary)
           THEN /\ ret' = Call("finalize_assertions", ret.op, t, TRUE, error_msg)
                /\ BodyFailed(t, "finalize", error_msg)
                /\ results' = <<>>
           ELSE /\ ret' = Call("finalize_assertions", ret.op, t, FALSE, NoText)
                /\ UNCHANGED <<pc, report, results>>
        /\ summaryOut' = IF FinalizeRaises(summary) THEN NoSummary ELSE summaryOut
        /\ UNCHANGED <<test_context, useFixture, own, ownCtx, prior>>

FinalizeAssertions(t) ==
    LET summary == get_summary(results)
        error_msg == FinalizeMessage(summary, test_context)
    IN  /\ pc[t] = "body"
        /\ IF FinalizeRaises(summary)
           THEN /\ ret' = Call("finalize_assertions", ret.op, t, TRUE, error_msg)
                /\ BodyFailed(t, "finalize", error_msg)
           ELSE /\ ret' = Call("finalize_assertions", ret.op, t, FALSE, NoText)
                /\ UNCHANGED <<pc, report>>
        /\ summaryOut' = IF FinalizeRaises(summary) THEN NoSummary ELSE summaryOut
        /\ UNCHANGED <<results, test_context, useFixture, own, ownCtx, prior>>

\* APIActions(): a new instance, with last_response = None.
NewAPIActions ==
    /\ last_response' = NoResponse
    /\ apiRet' = NoApiCall
    /\ UNCHANGED <<trackerVars, helper>>

\* get_request / post_request / put_request / patch_request / delete_request
\* answered with status `code`: self.last_response = self.session.get(...)
SendRequest(code) ==
    /\ last_response' = Response(code)
    /\ UNCHANGED <<apiRet, trackerVars, helper>>

\* get_response_status_code(response); NoResponse: the argument left out.
GetResponseStatusCode(response) ==
    LET chosen == IF ResponseTruthy(response) THEN response ELSE last_response
    IN  /\ apiRet' = IF ~ResponseTruthy(chosen)
                     THEN [kind |-> "ValueError", passed |-> response,
                           had |-> last_response, value |-> 0]
                     ELSE [kind |-> "return", passed |-> response,
                           had |-> last_response, value |-> chosen.status_code]
        /\ UNCHANGED <<last_response, trackerVars, helper>>

\* The test body returns normally.
EndBody(t) ==
    /\ pc[t] = "body"
    /\ pc' = [pc EXCEPT ![t] = AfterBody(t)]
    /\ report' = [report EXCEPT ![t].call = "passed"]
    /\ ret' = NoCall
    /\ summaryOut' = NoSummary
    /\ UNCHANGED <<results, test_context, useFixture, own, ownCtx, prior>>

\* pytest.fail raises _pytest.outcomes.Failed, a BaseException that is no
\* Exception: the fixture's `except Exception` does not catch it.
ExceptExceptionCatchesAll == TRUE

ExceptExceptionCatchesFailed == FALSE

\* The body of assert_element_text, assert_element_attribute and
\* assert_api_json_value (op): try: the retrieval (outcome), then the
\* comparison through assert_equals (Hard, Soft) or warning_assert;
\* except Exception: one failing record* call with the "Failed to get"
\* message.
AssertionKeyword(t, op, outcome, expected, level) ==
    LET texts == KeywordTexts(op)
        condition == outcome.value = expected
        compared ==
            IF level = HARD
            THEN AssertionResult(HARD, condition, texts.mismatch, expected, outcome.value)
            ELSE IF level = SOFT
            THEN [AssertionResult(SOFT, condition, texts.mismatch, expected, outcome.value)
                     EXCEPT !.traceback_info = SoftTraceback(condition)]
            ELSE AssertionResult(WARNING, condition, texts.mismatch, None, None)
        signalled == ~outcome.raised /\ level = HARD /\ HardFails(condition)
        caught == outcome.raised \/ (signalled /\ ExceptExceptionCatchesFailed)
        error_msg == texts.failed \o (IF outcome.raised THEN outcome.value ELSE texts.mismatch)
        failed ==
            IF level = HARD THEN AssertionResult(HARD, FALSE, error_msg, None, None)
            ELSE IF level = SOFT
            THEN [AssertionResult(SOFT, FALSE, error_msg, None, None)
                     EXCEPT !.traceback_info = SoftTraceback(FALSE)]
            ELSE AssertionResult(WARNING, FALSE, error_msg, None, None)
        appended == (IF outcome.raised THEN <<>> ELSE <<compared>>)
                       \o (IF caught THEN <<failed>> ELSE <<>>)
        escapes == level = HARD /\ (caught \/ signalled)
        call == IF level = HARD THEN "hard_assert"
                ELSE IF level = SOFT THEN "soft_assert" ELSE "warning_assert"
        fail_msg == FormatErrorMessage(appended[Len(appended)], test_context)
    IN  /\ pc[t] = "body"
        /\ helper' = HelperCall(op, t, outcome, expected, level)
        /\ results' = results \o appended
        /\ own' = [own EXCEPT ![t] = @ \o appended]
        /\ summaryOut' = NoSummary
        /\ IF escapes
           THEN /\ ret' = Call(call, ret.op, t, TRUE, fail_msg)
                /\ BodyFailed(t, "hard", fail_msg)
           ELSE /\ ret' = Call(call, ret.op, t, FALSE, NoText)
                /\ UNCHANGED <<pc, report>>
        /\ UNCHANGED <<test_context, useFixture, ownCtx, prior>>

\* assert_element_text(locator, expected_text, level)
AssertElementText(t, outcome, expected_text, level) ==
    AssertionKeyword(t, "assert_element_text", outcome, expected_text, level)

\* assert_element_attribute(locator, attribute, expected_value, level)
AssertElementAttribute(t, outcome, expected_value, level) ==
    AssertionKeyword(t, "assert_element_attribute", outcome, expected_value, level)

\* assert_api_json_value(json_path, expected_value, response, level)
AssertApiJsonValue(t, outcome, expected_value, level) ==
    AssertionKeyword(t, "assert_api_json_value", outcome, expected_value, level)

\* The `assertions` fixture after its yield: finalize_assertions() inside
\* try / except Exception.
FixtureTeardown(t) ==
    LET summary == get_summary(results)
        error_msg == FinalizeMessage(summary, test_context)
        raised == FinalizeRaises(summary)
    IN  /\ pc[t] = "fixture_teardown"
        /\ pc' = [pc EXCEPT ![t] = "teardown_method"]
        /\ ret' = Call("finalize_assertions", ret.op, t, raised,
                       IF raised THEN error_msg ELSE NoText)
        /\ report' = IF raised /\ ~ExceptExceptionCatchesFailed
                     THEN [report EXCEPT ![t].teardown = "error", ![t].tdMsg = error_msg]
                     ELSE report
        /\ UNCHANGED <<results, test_context, useFixture, own, ownCtx, prior, summaryOut>>

\* BaseTest.teardown_method: screenshot, driver and test data clean-up; it
\* makes no call on the assertion manager.
TeardownMethod(t) ==
    /\ pc[t] = "teardown_method"
    /\ pc' = [pc EXCEPT ![t] = "done"]
    /\ report' = [report EXCEPT ![t].teardown =
                     IF @ = "none" THEN "ok" ELSE @]
    /\ UNCHANGED <<results, test_context, useFixture, own, ownCtx, prior, ret, summaryOut>>

\* The runner has reported the test and moves on.
Collect(t) ==
    /\ pc[t] = "done"
    /\ pc' = [pc EXCEPT ![t] = "idle"]
    /\ report' = [report EXCEPT ![t] = NoReport]
    /\ useFixture' = [useFixture EXCEPT ![t] = FALSE]
    /\ own' = [own EXCEPT ![t] = <<>>]
    /\ ownCtx' = [ownCtx EXCEPT ![t] = None]
    /\ prior' = [prior EXCEPT ![t] = FALSE]
    /\ ret' = NoCall
    /\ UNCHANGED <<results, test_context, summaryOut>>

\* What the runner reports for a finished test.
Verdict(t) ==
    IF report[t].call = "failed" THEN "failed"
    ELSE IF report[t].teardown = "error" THEN "error"
    ELSE "passed"

----------------------------------------------------------------------------
(* Specifications *)

\* Tests run one after the other: a test starts when no other is running.
Solo(t) == \A u \in Threads \ {t} : pc[u] = "idle"

Next ==
    \/ \E t \in Threads, fixture \in BOOLEAN : Solo(t) /\ SetupMethod(t, fixture) /\ UNCHANGED <<apiVars, helper, sideVars>>
    \/ \E t \in Threads, n \in StackNames : Solo(t) /\ FixtureSetup(t, n) /\ UNCHANGED <<apiVars, helper, sideVars>>
    \/ \E t \in Threads : Solo(t) /\ Reset(t) /\ UNCHANGED <<apiVars, helper, sideVars>>
    \/ \E t \in Threads, n \in CtxNames : Solo(t) /\ SetTestContext(t, n) /\ UNCHANGED <<apiVars, helper, sideVars>>
    \/ \E t \in Threads, c \in BOOLEAN, a \in Args : Solo(t) /\ Len(results) < MaxRecords /\ HardAssert(t, c, a.message, a.expected, a.actual) /\ UNCHANGED <<apiVars, helper, sideVars>>
    \/ \E t \in Threads, c \in BOOLEAN, a \in Args : Solo(t) /\ Len(results) < MaxRecords /\ SoftAssert(t, c, a.message, a.expected, a.actual) /\ UNCHANGED <<apiVars, helper, sideVars>>
    \/ \E t \in Threads, c \in BOOLEAN, a \in Args : Solo(t) /\ Len(results) < MaxRecords /\ WarningAssert(t, c, a.message, a.expected, a.actual) /\ UNCHANGED <<apiVars, helper, sideVars>>
    \/ \E t \in Threads : Solo(t) /\ GetSummary(t) /\ UNCHANGED <<apiVars, helper, sideVars>>
    \/ \E t \in Threads : Solo(t) /\ FinalizeAssertions(t) /\ UNCHANGED <<apiVars, helper, sideVars>>
    \/ \E t \in Threads : Solo(t) /\ EndBody(t) /\ UNCHANGED <<apiVars, helper, sideVars>>
    \/ \E t \in Threads : Solo(t) /\ FixtureTeardown(t) /\ UNCHANGED <<apiVars, helper, sideVars>>
    \/ \E t \in Threads : Solo(t) /\ TeardownMethod(t) /\ UNCHANGED <<apiVars, helper, sideVars>>
    \/ \E t \in Threads : Solo(t) /\ Collect(t) /\ UNCHANGED <<apiVars, helper, sideVars>>

Spec == Init /\ [][Next]_vars

\* Tests run on two threads of one process, sharing assertion_manager.  The
\* test bodies make record* calls only.
NextConc ==
    \/ \E t \in Threads, fixture \in BOOLEAN : SetupMethod(t, fixture) /\ UNCHANGED <<apiVars, helper, sideVars>>
    \/ \E t \in Threads, n \in ConcStackNames : FixtureSetup(t, n) /\ UNCHANGED <<apiVars, helper, sideVars>>
    \/ \E t \in Threads, c \in BOOLEAN, a \in ConcArgs : Len(results) < MaxConcRecords /\ Len(own[t]) < MaxConcRecords /\ HardAssert(t, c, a.message, a.expected, a.actual) /\ UNCHANGED <<apiVars, helper, sideVars>>
    \/ \E t \in Threads, c \in BOOLEAN, a \in ConcArgs : Len(results) < MaxConcRecords /\ Len(own[t]) < MaxConcRecords /\ SoftAssert(t, c, a.message, a.expected, a.actual) /\ UNCHANGED <<apiVars, helper, sideVars>>
    \/ \E t \in Threads, c \in BOOLEAN, a \in ConcArgs : Len(results) < MaxConcRecords /\ Len(own[t]) < MaxConcRecords /\ WarningAssert(t, c, a.message, a.expected, a.actual) /\ UNCHANGED <<apiVars, helper, sideVars>>
    \/ \E t \in Threads : EndBody(t) /\ UNCHANGED <<apiVars, helper, sideVars>>
    \/ \E t \in Threads : FixtureTeardown(t) /\ UNCHANGED <<apiVars, helper, sideVars>>
    \/ \E t \in Threads : TeardownMethod(t) /\ UNCHANGED <<apiVars, helper, sideVars>>
    \/ \E t \in Threads : Collect(t) /\ UNCHANGED <<apiVars, helper, sideVars>>

SpecConc == Init /\ [][NextConc]_vars

\* Tests run one after the other; their bodies pass every combination of
\* expected and actual, and set the context themselves.
NextFormat ==
    \/ \E t \in Threads, fixture \in BOOLEAN : Solo(t) /\ SetupMethod(t, fixture) /\ UNCHANGED <<apiVars, helper, sideVars>>
    \/ \E t \in Threads, n \in StackNames : Solo(t) /\ FixtureSetup(t, n) /\ UNCHANGED <<apiVars, helper, sideVars>>
    \/ \E t \in Threads : Solo(t) /\ Reset(t) /\ UNCHANGED <<apiVars, helper, sideVars>>
    \/ \E t \in Threads, n \in CtxNames : Solo(t) /\ SetTestContext(t, n) /\ UNCHANGED <<apiVars, helper, sideVars>>
    \/ \E t \in Threads, c \in BOOLEAN, a \in FormatArgs : Solo(t) /\ Len(results) < MaxFormatRecords /\ HardAssert(t, c, a.message, a.expected, a.actual) /\ UNCHANGED <<apiVars, helper, sideVars>>
    \/ \E t \in Threads, c \in BOOLEAN, a \in FormatArgs : Solo(t) /\ Len(results) < MaxFormatRecords /\ SoftAssert(t, c, a.message, a.expected, a.actual) /\ UNCHANGED <<apiVars, helper, sideVars>>
    \/ \E t \in Threads : Solo(t) /\ FinalizeAssertions(t) /\ UNCHANGED <<apiVars, helper, sideVars>>
    \/ \E t \in Threads : Solo(t) /\ EndBody(t) /\ UNCHANGED <<apiVars, helper, sideVars>>
    \/ \E t \in Threads : Solo(t) /\ FixtureTeardown(t) /\ UNCHANGED <<apiVars, helper, sideVars>>
    \/ \E t \in Threads : Solo(t) /\ TeardownMethod(t) /\ UNCHANGED <<apiVars, helper, sideVars>>
    \/ \E t \in Threads : Solo(t) /\ Collect(t) /\ UNCHANGED <<apiVars, helper, sideVars>>

SpecFormat == Init /\ [][NextFormat]_vars

\* Tests run one after the other; the k-th record* call of a body carries
\* the k-th message of ScriptMessages, at any level and with any condition.
NextScript ==
    \/ \E t \in Threads, fixture \in BOOLEAN : Solo(t) /\ SetupMethod(t, fixture) /\ UNCHANGED <<apiVars, helper, sideVars>>
    \/ \E t \in Threads, n \in StackNames : Solo(t) /\ FixtureSetup(t, n) /\ UNCHANGED <<apiVars, helper, sideVars>>
    \/ \E t \in Threads, c \in BOOLEAN : Solo(t) /\ Len(results) < MaxScriptRecords /\ HardAssert(t, c, ScriptMessages[Len(own[t]) + 1], None, None) /\ UNCHANGED <<apiVars, helper, sideVars>>
    \/ \E t \in Threads, c \in BOOLEAN : Solo(t) /\ Len(results) < MaxScriptRecords /\ SoftAssert(t, c, ScriptMessages[Len(own[t]) + 1], None, None) /\ UNCHANGED <<apiVars, helper, sideVars>>
    \/ \E t \in Threads, c \in BOOLEAN : Solo(t) /\ Len(results) < MaxScriptRecords /\ WarningAssert(t, c, ScriptMessages[Len(own[t]) + 1], None, None) /\ UNCHANGED <<apiVars, helper, sideVars>>
    \/ \E t \in Threads : Solo(t) /\ FinalizeAssertions(t) /\ UNCHANGED <<apiVars, helper, sideVars>>
    \/ \E t \in Threads : Solo(t) /\ EndBody(t) /\ UNCHANGED <<apiVars, helper, sideVars>>
    \/ \E t \in Threads : Solo(t) /\ FixtureTeardown(t) /\ UNCHANGED <<apiVars, helper, sideVars>>
    \/ \E t \in Threads : Solo(t) /\ TeardownMethod(t) /\ UNCHANGED <<apiVars, helper, sideVars>>
    \/ \E t \in Threads : Solo(t) /\ Collect(t) /\ UNCHANGED <<apiVars, helper, sideVars>>

SpecScript == Init /\ [][NextScript]_vars

\* Tests of BaseTest classes run one after the other; their bodies call the
\* comparison helpers of assertion_manager.
NextHelpers ==
    \/ \E t \in Threads : Solo(t) /\ SetupMethod(t, FALSE) /\ helper' = NoHelper /\ UNCHANGED <<apiVars, sideVars>>
    \/ \E t \in Threads, a, e \in PyValues, m \in HelperMessages, l \in Levels : Solo(t) /\ Len(results) < MaxHelperRecords /\ AssertEquals(t, a, e, m, l) /\ UNCHANGED <<apiVars, sideVars>>
    \/ \E t \in Threads, a, e \in PyValues, m \in HelperMessages, l \in Levels : Solo(t) /\ Len(results) < MaxHelperRecords /\ AssertNotEquals(t, a, e, m, l) /\ UNCHANGED <<apiVars, sideVars>>
    \/ \E t \in Threads, c, i \in PyValues, m \in HelperMessages, l \in Levels : Solo(t) /\ Len(results) < MaxHelperRecords /\ AssertContains(t, c, i, m, l) /\ UNCHANGED <<apiVars, sideVars>>
    \/ \E t \in Threads, c \in BOOLEAN, m \in HelperMessages, l \in Levels : Solo(t) /\ Len(results) < MaxHelperRecords /\ AssertTrue(t, c, m, l) /\ UNCHANGED <<apiVars, sideVars>>
    \/ \E t \in Threads, c \in BOOLEAN, m \in HelperMessages, l \in Levels : Solo(t) /\ Len(results) < MaxHelperRecords /\ AssertFalse(t, c, m, l) /\ UNCHANGED <<apiVars, sideVars>>
    \/ \E t \in Threads, a, e \in PyValues, m \in HelperMessages, l \in Levels : Solo(t) /\ Len(results) < MaxHelperRecords /\ AssertGreaterThan(t, a, e, m, l) /\ UNCHANGED <<apiVars, sideVars>>
    \/ \E t \in Threads, a, e \in PyValues, m \in HelperMessages, l \in Levels : Solo(t) /\ Len(results) < MaxHelperRecords /\ AssertLessThan(t, a, e, m, l) /\ UNCHANGED <<apiVars, sideVars>>
    \/ \E t \in Threads, c, n \in PyValues, m \in HelperMessages, l \in Levels : Solo(t) /\ Len(results) < MaxHelperRecords /\ n.type = "int" /\ AssertLength(t, c, n.n, m, l) /\ UNCHANGED <<apiVars, sideVars>>
    \/ \E t \in Threads : Solo(t) /\ EndBody(t) /\ helper' = NoHelper /\ UNCHANGED <<apiVars, sideVars>>
    \/ \E t \in Threads : Solo(t) /\ TeardownMethod(t) /\ UNCHANGED <<apiVars, helper, sideVars>>
    \/ \E t \in Threads : Solo(t) /\ Collect(t) /\ helper' = NoHelper /\ UNCHANGED <<apiVars, sideVars>>

SpecHelpers == Init /\ [][NextHelpers]_vars

\* Tests of BaseTest classes run one after the other; their bodies call the
\* assertion keywords.
NextKeywords ==
    \/ \E t \in Threads : Solo(t) /\ SetupMethod(t, FALSE) /\ helper' = NoHelper /\ UNCHANGED <<apiVars, sideVars>>
    \/ \E t \in Threads, o \in KeywordOutcomes, e \in KeywordExpected, l \in Levels : Solo(t) /\ Len(results) < MaxKeywordRecords /\ AssertElementText(t, o, e, l) /\ UNCHANGED <<apiVars, sideVars>>
    \/ \E t \in Threads, o \in KeywordOutcomes, e \in KeywordExpected, l \in Levels : Solo(t) /\ Len(results) < MaxKeywordRecords /\ AssertElementAttribute(t, o, e, l) /\ UNCHANGED <<apiVars, sideVars>>
    \/ \E t \in Threads, o \in KeywordOutcomes, e \in KeywordExpected, l \in Levels : Solo(t) /\ Len(results) < MaxKeywordRecords /\ AssertApiJsonValue(t, o, e, l) /\ UNCHANGED <<apiVars, sideVars>>
    \/ \E t \in Threads : Solo(t) /\ EndBody(t) /\ helper' = NoHelper /\ UNCHANGED <<apiVars, sideVars>>
    \/ \E t \in Threads : Solo(t) /\ TeardownMethod(t) /\ UNCHANGED <<apiVars, helper, sideVars>>
    \/ \E t \in Threads : Solo(t) /\ Collect(t) /\ helper' = NoHelper /\ UNCHANGED <<apiVars, sideVars>>

SpecKeywords == Init /\ [][NextKeywords]_vars

\* ---------------------------------------------------------------------
\* The cache of DataActions (keywords/data_actions.py)

\* The dict d without key k.
Without(d, k) == [x \in (DOMAIN d) \ {k} |-> d[x]]

\* The dict d with d[k] = v.
With(d, k, v) == [x \in (DOMAIN d) \cup {k} |-> IF x = k THEN v ELSE d[x]]

\* bool(cache_key): None and "" are false.
KeyTruthy(cache_key) == cache_key # None /\ cache_key # ""

CacheCall(op, key, data, raised, value) ==
    [op |-> op, key |-> key, data |-> data, raised |-> raised, value |-> value,
     before |-> cached_data]

\* DataActions(): the test_data_manager fixture creates the object.
NewDataActions ==
    /\ cached_data' = EmptyDict
    /\ cacheRet' = NoCacheCall

\* cache_data(cache_key, data)
CacheDataCall(cache_key, data) ==
    /\ cached_data' = With(cached_data, cache_key, data)
    /\ cacheRet' = CacheCall("cache_data", cache_key, data, FALSE, 0)

\* get_cached_data(cache_key)
GetCachedData(cache_key) ==
    /\ cacheRet' = IF cache_key \notin DOMAIN cached_data
                   THEN CacheCall("get_cached_data", cache_key, 0, TRUE, 0)
                   ELSE CacheCall("get_cached_data", cache_key, 0, FALSE, cached_data[cache_key])
    /\ UNCHANGED cached_data

\* clear_cache(cache_key); None: the argument left out, as in the teardown
\* of the test_data_manager fixture.
ClearCache(cache_key) ==
    /\ cached_data' = IF KeyTruthy(cache_key)
                      THEN IF cache_key \in DOMAIN cached_data
                           THEN Without(cached_data, cache_key)
                           ELSE cached_data
                      ELSE EmptyDict
    /\ cacheRet' = CacheCall("clear_cache", cache_key, 0, FALSE, 0)

NextCache ==
    \/ NewDataActions /\ UNCHANGED notCache
    \/ \E k \in CacheKeys, d \in CacheData : CacheDataCall(k, d) /\ UNCHANGED notCache
    \/ \E k \in CacheKeys : GetCachedData(k) /\ UNCHANGED notCache
    \/ \E k \in CacheKeys \cup {None} : ClearCache(k) /\ UNCHANGED notCache

SpecCache == Init /\ [][NextCache]_vars

\* ---------------------------------------------------------------------
\* EnvironmentManager (config/environment.py)

EnvCall(op, name, raised) ==
    [op |-> op, name |-> name, raised |-> raised, before |-> current_env]

\* EnvironmentManager(): current_env = os.getenv('TEST_ENV', 'dev').lower()
NewEnvironmentManager ==
    /\ current_env' = Lower(IF TEST_ENV = None THEN "dev" ELSE TEST_ENV)
    /\ initial_env' = current_env'
    /\ envRet' = NoEnvCall
    /\ UNCHANGED TEST_ENV

\* The interpreter starts with TEST_ENV set to `value` (None: unset) and
\* imports config.environment, which constructs the global env_manager.
ProcessStart(value) ==
    /\ TEST_ENV' = value
    /\ current_env' = Lower(IF value = None THEN "dev" ELSE value)
    /\ initial_env' = current_env'
    /\ envRet' = NoEnvCall

\* self.current_env = env_name.lower()
StoredAsGiven(env_name) == env_name

Stored(env_name) == Lower(env_name)

\* set_environment(env_name)
SetEnvironment(env_name) ==
    /\ IF Lower(env_name) \notin Environments
       THEN /\ envRet' = EnvCall("set_environment", env_name, TRUE)
            /\ UNCHANGED current_env
       ELSE /\ envRet' = EnvCall("set_environment", env_name, FALSE)
            /\ current_env' = Stored(env_name)
    /\ UNCHANGED <<TEST_ENV, initial_env>>

\* get_config()
GetConfig ==
    /\ envRet' = EnvCall("get_config", None, current_env \notin Environments)
    /\ UNCHANGED <<current_env, TEST_ENV, initial_env>>

\* pytest_configure with --env given: os.environ["TEST_ENV"] = env_name,
\* then env_manager.set_environment(env_name).
PytestConfigure(env_name) ==
    /\ TEST_ENV' = env_name
    /\ IF Lower(env_name) \notin Environments
       THEN /\ envRet' = EnvCall("set_environment", env_name, TRUE)
            /\ UNCHANGED current_env
       ELSE /\ envRet' = EnvCall("set_environment", env_name, FALSE)
            /\ current_env' = Stored(env_name)
    /\ UNCHANGED initial_env

NextEnv ==
    \/ \E v \in EnvNames \cup {None} : ProcessStart(v) /\ UNCHANGED notEnv
    \/ NewEnvironmentManager /\ UNCHANGED notEnv
    \/ \E n \in EnvNames : SetEnvironment(n) /\ UNCHANGED notEnv
    \/ GetConfig /\ UNCHANGED notEnv
    \/ \E n \in EnvNames : PytestConfigure(n) /\ UNCHANGED notEnv

SpecEnv == Init /\ [][NextEnv]_vars

\* ---------------------------------------------------------------------
\* BasePage.click (core/base_page.py)

\* if attempt == max_attempts - 1
IsAfterLastAttempt(attempt) == attempt = max_attempts

IsLastAttempt(attempt) == attempt = max_attempts - 1

\* click(locator) is called: the for loop starts with attempt 0.
BeginClick ==
    /\ click.at \in {"idle", "returned", "raised"}
    /\ click' = [NoClick EXCEPT !.at = "try"]

\* One pass through the try block, and the except clause when a retryable
\* error was raised: up to the return, to the raise, to the JavaScript
\* click, or to time.sleep.
Attempt(outcome) ==
    LET e == Error(outcome.kind, outcome.step, click.attempt)
    IN  /\ click.at = "try"
        /\ click' =
              IF outcome.kind = None
              THEN [click EXCEPT !.at = "returned", !.clicked = "regular"]
              ELSE IF outcome.kind \in Retryable
              THEN [click EXCEPT !.errors = Append(@, e),
                                 !.at = IF IsLastAttempt(click.attempt) THEN "js" ELSE "sleep"]
              ELSE [click EXCEPT !.at = "raised", !.raised = e]

\* time.sleep(0.5) returns and the for loop goes on: to the next attempt,
\* or past range(max_attempts), where click() returns.
Sleep ==
    /\ click.at = "sleep"
    /\ click' = [click EXCEPT !.attempt = @ + 1,
                              !.at = IF click.attempt + 1 < max_attempts
                                     THEN "try" ELSE "returned"]

\* The last resort of the except clause: click_with_javascript(locator)
\* returns, or raises and `raise e` re-raises the caught error.
ClickWithJavascript(outcome) ==
    /\ click.at = "js"
    /\ click' =
          IF outcome.kind = None
          THEN [click EXCEPT !.js = @ + 1, !.at = "returned", !.clicked = "javascript"]
          ELSE [click EXCEPT !.js = @ + 1, !.at = "raised",
                             !.raised = click.errors[Len(click.errors)],
                             !.js_error = Error(outcome.kind, outcome.step, click.attempt)]

NextClick ==
    \/ BeginClick /\ UNCHANGED notClick
    \/ \E o \in AttemptOutcomes : Attempt(o) /\ UNCHANGED notClick
    \/ Sleep /\ UNCHANGED notClick
    \/ \E o \in JavascriptOutcomes : ClickWithJavascript(o) /\ UNCHANGED notClick

\* Every step of a click() call is taken in the end: waits time out, the
\* browser answers or raises, sleep returns.
SpecClick ==
    /\ Init /\ [][NextClick]_vars
    /\ WF_vars((\E o \in AttemptOutcomes : Attempt(o)) /\ UNCHANGED notClick)
    /\ WF_vars(Sleep /\ UNCHANGED notClick)
    /\ WF_vars((\E o \in JavascriptOutcomes : ClickWithJavascript(o)) /\ UNCHANGED notClick)

\* ---------------------------------------------------------------------
\* DriverManager (core/driver_manager.py)

\* key = f"{thread_id}_{browser_name}"
Key(thread_id, browser_name) == ToString(thread_id) \o "_" \o browser_name

\* key.startswith(prefix)
StartsWith(key, prefix) ==
    /\ Len(key) >= Len(prefix)
    /\ SubSeq(key, 1, Len(prefix)) = prefix

\* key in cls._instances
InInstances(key) == \E i \in 1..Len(instances) : instances[i].key = key

\* cls._instances[key]
InstanceAt(key) ==
    instances[CHOOSE i \in 1..Len(instances) : instances[i].key = key].instance

\* DriverManager.__init__: driver and wait are None.  thread, key and
\* current are history: who created the object, under which key, and
\* whether the registry has been cleared since.
NewManager(thread_id, key) ==
    [driver |-> None, wait |-> None, thread |-> thread_id, key |-> key, current |-> TRUE]

\* DriverManager.quit_driver on manager m; quit_raises: self.driver.quit()
\* raises.
QuitDriverKeepingWait(m, quit_raises) ==
    IF m.driver # None THEN [m EXCEPT !.driver = None] ELSE m

QuitDriverOf(m, quit_raises) ==
    IF m.driver # None
    THEN [m EXCEPT !.driver = None, !.wait = None]
    ELSE m

\* DriverManager.start_driver on manager m: the manager afterwards, whether
\* the call raised, the driver returned, and whether a session was created.
StartDriverOf(m, outcome) ==
    IF m.driver # None
    THEN [manager |-> m, raised |-> FALSE, value |-> m.driver, created |-> FALSE]
    ELSE IF outcome = "started"
    THEN [manager |-> [m EXCEPT !.driver = "responsive", !.wait = "wait"],
          raised |-> FALSE, value |-> "responsive", created |-> TRUE]
    ELSE IF outcome = "create_raises"
    THEN [manager |-> QuitDriverOf(m, FALSE),
          raised |-> TRUE, value |-> None, created |-> FALSE]
    ELSE [manager |-> QuitDriverOf([m EXCEPT !.driver = "responsive"], FALSE),
          raised |-> TRUE, value |-> None, created |-> TRUE]

\* DriverManager.is_driver_active on manager m
IsDriverActive(m) ==
    IF m.driver = None THEN FALSE ELSE m.driver = "responsive"

DriverCall(op, thread_id, instance, raised, value, created, before, quit_raises) ==
    [op |-> op, thread |-> thread_id, instance |-> instance, raised |-> raised,
     value |-> value, created |-> created, before |-> before, quit_raises |-> quit_raises]

\* The registry and the list of managers after get_instance under `key`:
\* a manager is created when the key is missing.
KeyNeverIn(key) == FALSE

KeyIn(key) == InInstances(key)

\* DriverManager.get_instance, the statements under `with cls._lock`.
GetInstanceLocked(thread_id, key) ==
    IF KeyIn(key)
    THEN /\ UNCHANGED <<instances, managers>>
         /\ driverRet' = DriverCall("get_instance", thread_id, InstanceAt(key), FALSE,
                                    key, FALSE, None, FALSE)
    ELSE /\ managers' = Append(managers, NewManager(thread_id, key))
         /\ instances' = Append(instances, [key |-> key, instance |-> Len(managers) + 1])
         /\ driverRet' = DriverCall("get_instance", thread_id, Len(managers) + 1, FALSE,
                                    key, TRUE, None, FALSE)

\* DriverManager.get_instance(browser_name), run without interruption.
GetInstance(t, browser_name) ==
    /\ lock = 0
    /\ GetInstanceLocked(t, Key(t, browser_name))
    /\ UNCHANGED <<lock, at>>

\* manager.start_driver() on the i-th manager.
StartDriver(i, outcome) ==
    LET r == StartDriverOf(managers[i], outcome)
    IN  /\ managers' = [managers EXCEPT ![i] = r.manager]
        /\ driverRet' = DriverCall("start_driver", managers[i].thread, i, r.raised, r.value,
                                   r.created, managers[i].driver, FALSE)
        /\ UNCHANGED <<instances, lock, at>>

\* manager.quit_driver() on the i-th manager.
QuitDriver(i, quit_raises) ==
    /\ managers' = [managers EXCEPT ![i] = QuitDriverOf(@, quit_raises)]
    /\ driverRet' = DriverCall("quit_driver", managers[i].thread, i, FALSE, None, FALSE,
                               managers[i].driver, quit_raises)
    /\ UNCHANGED <<instances, lock, at>>

\* manager.restart_driver() on the i-th manager.
RestartDriver(i, quit_raises, outcome) ==
    LET r == StartDriverOf(QuitDriverOf(managers[i], quit_raises), outcome)
    IN  /\ managers' = [managers EXCEPT ![i] = r.manager]
        /\ driverRet' = DriverCall("restart_driver", managers[i].thread, i, r.raised, r.value,
                                   r.created, managers[i].driver, quit_raises)
        /\ UNCHANGED <<instances, lock, at>>

\* The browser of the i-th manager's driver stops answering: from now on
\* self.driver.current_url raises.
SessionLost(i) ==
    /\ managers[i].driver = "responsive"
    /\ managers' = [managers EXCEPT ![i].driver = "unresponsive"]
    /\ UNCHANGED <<instances, lock, at, driverRet>>

\* The module-level get_driver(browser_name), run without interruption.
GetDriver(t, browser_name, outcome) ==
    LET key == Key(t, browser_name)
        known == KeyIn(key)
        i == IF known THEN InstanceAt(key) ELSE Len(managers) + 1
        m == IF known THEN managers[i] ELSE NewManager(t, key)
        r == IF IsDriverActive(m)
             THEN [manager |-> m, raised |-> FALSE, value |-> m.driver, created |-> FALSE]
             ELSE StartDriverOf(m, outcome)
    IN  /\ lock = 0
        /\ managers' = IF known THEN [managers EXCEPT ![i] = r.manager]
                                ELSE Append(managers, r.manager)
        /\ instances' = IF known THEN instances
                                 ELSE Append(instances, [key |-> key, instance |-> i])
        /\ driverRet' = DriverCall("get_driver", t, i, r.raised,
                                   IF r.raised THEN None ELSE r.manager.driver,
                                   r.created, m.driver, FALSE)
        /\ UNCHANGED <<lock, at>>

\* DriverManager.cleanup_all_drivers, the statements under `with cls._lock`.
CleanupLocked(thread_id, quit_raises) ==
    /\ managers' = [i \in 1..Len(managers) |->
                      IF \E k \in 1..Len(instances) : instances[k].instance = i
                      THEN [QuitDriverOf(managers[i], quit_raises) EXCEPT !.current = FALSE]
                      ELSE managers[i]]
    /\ instances' = <<>>
    /\ driverRet' = DriverCall("cleanup_all_drivers", thread_id, 0, FALSE, None, FALSE,
                               None, quit_raises)

\* DriverManager.cleanup_all_drivers(), run without interruption.
CleanupAllDrivers(t, quit_raises) ==
    /\ lock = 0
    /\ CleanupLocked(t, quit_raises)
    /\ UNCHANGED <<lock, at>>

\* One thread at a time uses its managers; every call runs to its end.
NextManager ==
    \/ \E t \in ThreadIdents, b \in BrowserNames : (KeyIn(Key(t, b)) \/ Len(managers) < MaxSessionManagers) /\ GetInstance(t, b) /\ UNCHANGED notDriver
    \/ \E i \in 1..Len(managers), o \in StartOutcomes : StartDriver(i, o) /\ UNCHANGED notDriver
    \/ \E i \in 1..Len(managers), q \in BOOLEAN : QuitDriver(i, q) /\ UNCHANGED notDriver
    \/ \E i \in 1..Len(managers), q \in BOOLEAN, o \in StartOutcomes : RestartDriver(i, q, o) /\ UNCHANGED notDriver
    \/ \E i \in 1..Len(managers) : SessionLost(i) /\ UNCHANGED notDriver
    \/ \E t \in ThreadIdents, b \in BrowserNames, o \in StartOutcomes : (KeyIn(Key(t, b)) \/ Len(managers) < MaxSessionManagers) /\ GetDriver(t, b, o) /\ UNCHANGED notDriver
    \/ \E t \in ThreadIdents, q \in BOOLEAN : CleanupAllDrivers(t, q) /\ UNCHANGED notDriver

SpecManager == Init /\ [][NextManager]_vars

\* Thread t in a call: at `op`, with the key or the prefix it works with,
\* the position of its dict iterator and the dict's size when the
\* iteration began.
At(op, key, pos, size) == [op |-> op, key |-> key, pos |-> pos, size |-> size]

\* get_instance(browser_name) by thread t: `with cls._lock` entered.
EnterGetInstance(t, browser_name) ==
    /\ at[t] = Idle
    /\ lock = 0
    /\ lock' = t
    /\ at' = [at EXCEPT ![t] = At("get_instance", Key(t, browser_name), 0, 0)]
    /\ UNCHANGED <<instances, managers, driverRet>>

\* get_instance by thread t: the lookup, the creation, the return that
\* leaves the `with` block.
LeaveGetInstance(t) ==
    /\ at[t].op = "get_instance"
    /\ lock = t
    /\ GetInstanceLocked(t, at[t].key)
    /\ lock' = 0
    /\ at' = [at EXCEPT ![t] = Idle]

\* cleanup_all_drivers() by thread t: `with cls._lock` entered.
EnterCleanup(t) ==
    /\ at[t] = Idle
    /\ lock = 0
    /\ lock' = t
    /\ at' = [at EXCEPT ![t] = At("cleanup_all_drivers", "", 0, 0)]
    /\ UNCHANGED <<instances, managers, driverRet>>

\* cleanup_all_drivers() by thread t: the loop, the clear(), the end of the
\* `with` block.
LeaveCleanup(t, quit_raises) ==
    /\ at[t].op = "cleanup_all_drivers"
    /\ lock = t
    /\ CleanupLocked(t, quit_raises)
    /\ lock' = 0
    /\ at' = [at EXCEPT ![t] = Idle]

\* The module-level quit_driver(), take_screenshot() (op) by thread t:
\* thread_id read, the iterator over DriverManager._instances.items()
\* created.
BeginIteration(t, op) ==
    /\ at[t] = Idle
    /\ at' = [at EXCEPT ![t] = At(op, ToString(t), 1, Len(instances))]
    /\ UNCHANGED <<instances, lock, managers, driverRet>>

\* The module-level get_wait() by thread t: driver = get_driver(), whose
\* get_instance enters `with cls._lock`.
BeginGetWait(t) ==
    /\ at[t] = Idle
    /\ lock = 0
    /\ lock' = t
    /\ at' = [at EXCEPT ![t] = At("get_wait.get_instance", Key(t, "chrome"), 0, 0)]
    /\ UNCHANGED <<instances, managers, driverRet>>

\* get_wait() by thread t: get_instance of its get_driver() returns.
GetWaitInstance(t) ==
    /\ at[t].op = "get_wait.get_instance"
    /\ lock = t
    /\ GetInstanceLocked(t, at[t].key)
    /\ lock' = 0
    /\ at' = [at EXCEPT ![t].op = "get_wait.get_driver"]

\* get_wait() by thread t: the rest of its get_driver() (the session is
\* started when the manager is not active), then thread_id read and the
\* iterator over DriverManager._instances.items() created.
GetWaitDriver(t) ==
    /\ at[t].op = "get_wait.get_driver"
    /\ IF InInstances(at[t].key)
       THEN LET i == InstanceAt(at[t].key)
            IN  managers' = [managers EXCEPT ![i] =
                                IF IsDriverActive(@) THEN @
                                ELSE StartDriverOf(@, "started").manager]
       ELSE UNCHANGED managers
    /\ at' = [at EXCEPT ![t] = At("get_wait", ToString(t), 1, Len(instances))]
    /\ UNCHANGED <<instances, lock, driverRet>>

\* if key.startswith(str(thread_id)), of the three module-level functions.
KeyOfThread(key, thread) == StartsWith(key, thread)

\* One step of the loop `for key, instance in
\* DriverManager._instances.items()` of quit_driver(), get_wait() and
\* take_screenshot() by thread t: the iterator raises RuntimeError when the
\* dict's size has changed since it was created, ends the loop past the
\* last item, and else yields the next item to the loop's body.
StepIteration(t, quit_raises) ==
    LET op == at[t].op
        item == instances[at[t].pos]
        m == managers[item.instance]
    IN  /\ op \in {"quit_driver", "get_wait", "take_screenshot"}
        /\ IF Len(instances) # at[t].size
           THEN /\ driverRet' = DriverCall(op, t, 0, TRUE, "RuntimeError", FALSE, None, FALSE)
                /\ at' = [at EXCEPT ![t] = Idle]
                /\ UNCHANGED managers
           ELSE IF at[t].pos > Len(instances)
           THEN /\ driverRet' =
                      IF op = "quit_driver"
                      THEN DriverCall(op, t, 0, FALSE, None, FALSE, None, FALSE)
                      ELSE IF op = "get_wait"
                      THEN DriverCall(op, t, 0, FALSE, "wait", FALSE, None, FALSE)
                      ELSE DriverCall(op, t, 0, TRUE, "WebDriverException", FALSE, None, FALSE)
                /\ at' = [at EXCEPT ![t] = Idle]
                /\ UNCHANGED managers
           ELSE IF ~KeyOfThread(item.key, at[t].key)
           THEN /\ at' = [at EXCEPT ![t].pos = @ + 1]
                /\ UNCHANGED <<managers, driverRet>>
           ELSE IF op = "quit_driver"
           THEN /\ managers' = [managers EXCEPT ![item.instance] = QuitDriverOf(@, quit_raises)]
                /\ driverRet' = DriverCall(op, t, item.instance, FALSE, None, FALSE,
                                           m.driver, quit_raises)
                /\ at' = [at EXCEPT ![t].pos = @ + 1]
           ELSE IF op = "get_wait"
           THEN /\ driverRet' = DriverCall(op, t, item.instance, FALSE, m.wait, FALSE,
                                           m.driver, FALSE)
                /\ at' = [at EXCEPT ![t] = Idle]
                /\ UNCHANGED managers
           ELSE /\ driverRet' = DriverCall(op, t, item.instance, m.driver = None,
                                           IF m.driver = None THEN "WebDriverException"
                                                              ELSE "screenshot",
                                           FALSE, m.driver, FALSE)
                /\ at' = [at EXCEPT ![t] = Idle]
                /\ UNCHANGED managers
        /\ UNCHANGED <<instances, lock>>

\* Threads call get_instance, cleanup_all_drivers and the module-level
\* functions at the same time; a thread starts the driver of a manager it
\* created.
NextRegistry ==
    \/ \E t \in ThreadIdents, b \in BrowserNames : (KeyIn(Key(t, b)) \/ Len(managers) < MaxManagers) /\ EnterGetInstance(t, b) /\ UNCHANGED notDriver
    \/ \E t \in ThreadIdents : LeaveGetInstance(t) /\ UNCHANGED notDriver
    \/ \E t \in ThreadIdents : EnterCleanup(t) /\ UNCHANGED notDriver
    \/ \E t \in ThreadIdents : LeaveCleanup(t, FALSE) /\ UNCHANGED notDriver
    \/ \E t \in ThreadIdents : BeginIteration(t, "quit_driver") /\ UNCHANGED notDriver
    \/ \E t \in ThreadIdents : BeginIteration(t, "take_screenshot") /\ UNCHANGED notDriver
    \/ \E t \in ThreadIdents : (KeyIn(Key(t, "chrome")) \/ Len(managers) < MaxManagers) /\ BeginGetWait(t) /\ UNCHANGED notDriver
    \/ \E t \in ThreadIdents : GetWaitInstance(t) /\ UNCHANGED notDriver
    \/ \E t \in ThreadIdents : GetWaitDriver(t) /\ UNCHANGED notDriver
    \/ \E t \in ThreadIdents : StepIteration(t, FALSE) /\ UNCHANGED notDriver
    \/ \E i \in 1..Len(managers) : at[managers[i].thread] = Idle /\ StartDriver(i, "started") /\ UNCHANGED notDriver

SpecRegistry == Init /\ [][NextRegistry]_vars

\* A test class makes its APIActions, sends requests and reads status codes.
NextApi ==
    \/ NewAPIActions /\ UNCHANGED sideVars
    \/ \E code \in StatusCodes : SendRequest(code) /\ UNCHANGED sideVars
    \/ \E response \in Responses \cup {NoResponse} : GetResponseStatusCode(response) /\ UNCHANGED sideVars

SpecApi == Init /\ [][NextApi]_vars

----------------------------------------------------------------------------
(* Properties *)

Last(seq) == seq[Len(seq)]

InList(list, r) == \E j \in 1..Len(list) : list[j] = r

\* Thread t's test is past its setup and not yet collected.
Running(t) == pc[t] \in {"body", "fixture_teardown", "teardown_method", "done"}

\* The latest tracker call was op, made by t's test, which is still there.
LatestCall(t, op) == ret.op = op /\ ret.t = t /\ Running(t)

\* C1: when the calls a test made since reset() include a failing
\* soft_assert and no failing hard_assert, a finalize_assertions() call
\* raises (one pytest.fail, which reaches the runner as that test's call
\* failure or teardown error), and the message it raises with contains the
\* message of every failing soft assertion of the sequence.
C1_SoftFailuresFailFinalize ==
    \A t \in Threads :
        ( /\ LatestCall(t, "finalize_assertions")
          /\ Failing(own[t], SOFT) # {}
          /\ Failing(own[t], HARD) = {} )
        => /\ ret.raised
           /\ \A i \in Failing(own[t], SOFT) : HasToken(ret.msg, own[t][i].message)
           /\ \/ report[t].cause = "finalize" /\ report[t].callMsg = ret.msg
              \/ report[t].teardown = "error" /\ report[t].tdMsg = ret.msg

\* finalize_assertions() has raised over two failing soft assertions with
\* different messages.
C1_Witness ==
    \E t \in Threads :
        /\ LatestCall(t, "finalize_assertions")
        /\ ret.raised
        /\ Failing(own[t], HARD) = {}
        /\ \E i, j \in Failing(own[t], SOFT) : own[t][i].message # own[t][j].message

\* C2: no warning_assert call raises, whatever its condition, and a
\* finalize_assertions() over records without a failing soft assertion
\* returns normally; a test whose records are all warnings ends passed.
C2_WarningsNeverFail ==
    \A t \in Threads :
        /\ LatestCall(t, "warning_assert") => ~ret.raised
        /\ ( LatestCall(t, "finalize_assertions") /\ Failing(own[t], SOFT) = {} )
              => ~ret.raised
        /\ ( /\ pc[t] = "done"
             /\ \A i \in 1..Len(own[t]) : own[t][i].level = WARNING )
              => Verdict(t) = "passed"

\* finalize_assertions() has returned normally over a failing and a passing
\* warning assertion.
C2_Witness ==
    \E t \in Threads :
        /\ LatestCall(t, "finalize_assertions")
        /\ ~ret.raised
        /\ Failing(own[t], WARNING) # {}
        /\ \E i \in 1..Len(own[t]) : own[t][i].level = WARNING /\ own[t][i].passed
        /\ \A i \in 1..Len(own[t]) : own[t][i].level = WARNING

\* C3: a hard_assert whose condition is false raises inside the call and
\* ends the test body: its record is the last one the test makes, the body
\* is left and the runner holds a call failure caused by it.  A hard_assert
\* whose condition is true returns normally.
C3_HardFailureStopsBody ==
    \A t \in Threads :
        /\ \A i \in Failing(own[t], HARD) :
              /\ i = Len(own[t])
              /\ pc[t] # "body"
              /\ report[t].call = "failed"
              /\ report[t].cause = "hard"
        /\ ( LatestCall(t, "hard_assert") /\ own[t] # <<>> )
              => (ret.raised <=> ~Last(own[t]).passed)

\* A failing hard_assert has ended a body that had recorded before it.
C3_Witness ==
    \E t \in Threads :
        /\ LatestCall(t, "hard_assert")
        /\ ret.raised
        /\ Len(own[t]) = 2
        /\ Failing(own[t], HARD) = {2}
        /\ pc[t] # "body"

\* C4 (as claimed): every test run through setup_method / teardown_method
\* has finalize_assertions() run after its body, so a test that recorded a
\* failing soft assertion and no failing hard assertion is never reported
\* as passed.
C4_SoftFailureFailsEveryTest ==
    \A t \in Threads :
        ( /\ pc[t] = "done"
          /\ Failing(own[t], SOFT) # {}
          /\ Failing(own[t], HARD) = {} )
        => Verdict(t) # "passed"

\* C5 (as claimed): after a body ended by a failing hard_assert, the call
\* failure is the hard assertion's message and the fixture's finalize raises
\* nothing of its own.
C5_FinalizeOnlyLogsAfterHardFailure ==
    \A t \in Threads :
        ( report[t].cause = "hard" /\ pc[t] \in {"teardown_method", "done"} )
        => /\ report[t].call = "failed"
           /\ report[t].callMsg = FormatErrorMessage(Last(own[t]), ownCtx[t])
           /\ report[t].teardown # "error"

\* C6: a failing hard_assert leaves its record in the tracker: after it has
\* raised, get_summary() lists the record in hard_failures and counts it in
\* total and failed.  Every failing record made since the last reset() is in
\* the failure list of its level and in no other, and the lists hold nothing
\* else.
C6_FailuresVisibleInSummary ==
    \A t \in Threads :
        Running(t) =>
            LET s == get_summary(results)
            IN  /\ ( LatestCall(t, "hard_assert") /\ ret.raised )
                      => /\ own[t] # <<>>
                         /\ Last(own[t]).level = HARD
                         /\ ~Last(own[t]).passed
                         /\ s.hard_failures # <<>>
                         /\ Last(s.hard_failures) = Last(own[t])
                         /\ s.total = Len(own[t])
                         /\ s.failed = Cardinality({i \in 1..Len(own[t]) : ~own[t][i].passed})
                /\ \A i \in 1..Len(own[t]) :
                      ~own[t][i].passed =>
                          /\ InList(s.hard_failures, own[t][i]) <=> own[t][i].level = HARD
                          /\ InList(s.soft_failures, own[t][i]) <=> own[t][i].level = SOFT
                          /\ InList(s.warning_failures, own[t][i]) <=> own[t][i].level = WARNING
                /\ Len(s.hard_failures) + Len(s.soft_failures) + Len(s.warning_failures)
                      = Cardinality({i \in 1..Len(own[t]) : ~own[t][i].passed})

\* A hard_assert has raised and the summary shows its record after an
\* earlier failing record of another level.
C6_Witness ==
    \E t \in Threads :
        /\ LatestCall(t, "hard_assert")
        /\ ret.raised
        /\ Len(get_summary(results).hard_failures) = 1
        /\ get_summary(results).failed = 2
        /\ get_summary(results).total = 2

\* C7: when tests run one after the other, each starting with reset(), the
\* tracker shows a running test only what that test did: its records are the
\* test's own, its context is the one the test set, a summary taken is the
\* summary of the test's own records, finalize raises only over the test's
\* own soft failures, and a test that recorded no failure ends passed
\* whatever the tracker held when it was set up.
C7_NoCrossTestState ==
    \A t \in Threads :
        Running(t) =>
            /\ results = own[t]
            /\ test_context = ownCtx[t]
            /\ ( ret.op = "get_summary" /\ ret.t = t /\ summaryOut # NoSummary )
                  => summaryOut = get_summary(own[t])
            /\ ( ret.op = "finalize_assertions" /\ ret.t = t )
                  => (ret.raised <=> Failing(own[t], SOFT) # {})
            /\ ( ret.raised /\ ret.t = t /\ ret.msg[1] = "[" )
                  => ret.msg[2] = ownCtx[t]
            /\ ( pc[t] = "done" /\ \A i \in 1..Len(own[t]) : own[t][i].passed )
                  => Verdict(t) = "passed"

\* A test set up on a tracker that still held a failing soft record of an
\* earlier test has been finalized by the fixture and ended passed.
C7_Witness ==
    \E t \in Threads :
        /\ pc[t] = "done"
        /\ prior[t]
        /\ useFixture[t]
        /\ own[t] # <<>>
        /\ Verdict(t) = "passed"

\* C8 (as claimed): with two tests running at once, the tracker a test works
\* on holds exactly the records that test made.
C8_TrackerPerRunningTest ==
    \A t \in Threads :
        pc[t] \in {"body", "fixture_teardown"} => results = own[t]

\* C9: reset() leaves no record and no test context, and a get_summary()
\* right after it has total, passed, failed and warnings 0 and three empty
\* failure lists.
C9_ResetThenSummaryIsEmpty ==
    /\ ret.op = "reset" => (results = <<>> /\ test_context = None)
    /\ ( ret.op = "get_summary" /\ ret.prev = "reset" )
          => /\ summaryOut.total = 0
             /\ summaryOut.passed = 0
             /\ summaryOut.failed = 0
             /\ summaryOut.warnings = 0
             /\ summaryOut.hard_failures = <<>>
             /\ summaryOut.soft_failures = <<>>
             /\ summaryOut.warning_failures = <<>>

\* get_summary() has run right after a reset() in a test that had set its
\* context (so the reset came after the set-up of the test).
C9_Witness ==
    /\ ret.op = "get_summary"
    /\ ret.prev = "reset"
    /\ summaryOut = AssertionSummary
    /\ test_context = None
    /\ \E t \in Threads : pc[t] = "body" /\ ret.t = t

\* C10: a get_summary() call changes neither the records nor the test
\* context, and when no record* or reset call has come since the previous
\* get_summary(), it returns what that call returned.
C10_SummaryPureIdempotent ==
    [][ (\E t \in Threads : GetSummary(t))
          => /\ results' = results
             /\ test_context' = test_context
             /\ summaryOut # NoSummary => summaryOut' = summaryOut ]_vars

\* get_summary() has been called twice in a row over two records, one of
\* them failing.
C10_Witness ==
    /\ ret.op = "get_summary"
    /\ ret.prev = "get_summary"
    /\ summaryOut # NoSummary
    /\ summaryOut.total = 2
    /\ summaryOut.failed = 1
    /\ Len(results) = 2

\* The text the claim gives a failing record r: the message, the Expected
\* and Actual parts when both were given, the context in front when prefixed.
FailureText(r, ctx, prefixed) ==
    (IF prefixed THEN <<"[", ctx, "]">> ELSE <<>>)
        \o <<r.message>>
        \o (IF r.expected # None /\ r.actual # None
            THEN <<"Expected:", r.expected, "Actual:", r.actual>>
            ELSE <<>>)

\* The header of the aggregate message over n failing soft assertions.
AggregateHeader(n) == <<"Test had", ToString(n), "soft assertion failure(s):">>

FailingOf(rs, level) == SelectSeq(rs, LAMBDA r : r.level = level /\ ~r.passed)

\* C12: the message finalize_assertions() raises with states the number of
\* failing soft assertions the test recorded and then has one line for each
\* of them, in recording order (here, with a context set and no expected /
\* actual, the five tokens "-", "[", context, "]", message); the message of
\* a passing soft assertion, of a hard or of a warning assertion is not in it.
C12_AggregateListsFailingSoft ==
    \A t \in Threads :
        ( LatestCall(t, "finalize_assertions") /\ ret.raised ) =>
            LET fs == FailingOf(own[t], SOFT)
                n == Len(fs)
            IN  /\ n > 0
                /\ Len(ret.msg) = 3 + 5 * n
                /\ SubSeq(ret.msg, 1, 3) = AggregateHeader(n)
                /\ \A j \in 1..n :
                      SubSeq(ret.msg, 5 * j - 1, 5 * j + 3)
                         = <<"-", "[", ownCtx[t], "]", fs[j].message>>
                /\ \A i \in 1..Len(own[t]) :
                      i \notin Failing(own[t], SOFT)
                         => ~HasToken(ret.msg, own[t][i].message)

\* soft1 failed, soft2 passed, soft3 failed, and finalize_assertions() has
\* raised: its message has soft1 and soft3, not soft2; the summary counts
\* two failed and one passed.
C12_Witness ==
    \E t \in Threads :
        /\ LatestCall(t, "finalize_assertions")
        /\ ret.raised
        /\ Len(own[t]) = 3
        /\ \A i \in 1..3 : own[t][i].level = SOFT
        /\ ~own[t][1].passed /\ own[t][2].passed /\ ~own[t][3].passed
        /\ HasToken(ret.msg, "soft1") /\ HasToken(ret.msg, "soft3")
        /\ ~HasToken(ret.msg, "soft2")
        /\ get_summary(results).failed = 2
        /\ get_summary(results).passed = 1

\* C16: a soft_assert call returns normally whatever its condition: the
\* test is still in its body, nothing has been reported for it, and a next
\* record* call can be made; and every call a test made after a failing
\* soft assertion is in the tracker, at the place where it was made.
C16_SoftFailureDoesNotStop ==
    \A t \in Threads :
        /\ LatestCall(t, "soft_assert")
              => /\ ~ret.raised
                 /\ pc[t] = "body"
                 /\ report[t].call = "none"
                 /\ ENABLED HardAssert(t, FALSE, "later", None, None)
                 /\ ENABLED SoftAssert(t, FALSE, "later", None, None)
                 /\ ENABLED WarningAssert(t, FALSE, "later", None, None)
        /\ Running(t)
              => \A i \in Failing(own[t], SOFT) :
                    \A j \in (i + 1)..Len(own[t]) :
                        j <= Len(results) /\ results[j] = own[t][j]

\* A test recorded a failing soft assertion, then a hard and a warning
\* assertion, and is still in its body.
C16_Witness ==
    \E t \in Threads :
        /\ pc[t] = "body"
        /\ Len(results) = 3
        /\ results = own[t]
        /\ results[1].level = SOFT /\ ~results[1].passed
        /\ results[2].level = HARD
        /\ results[3].level = WARNING /\ ~results[3].passed

\* The latest helper call was op, made by t's test, which is still there.
LatestHelper(t, op) == helper.op = op /\ helper.t = t /\ Running(t)

\* The latest helper call appended exactly one record, of this level and
\* with this passed flag.
AppendedOne(level, passed) ==
    /\ Len(results) = helper.before + 1
    /\ Last(results).level = level
    /\ Last(results).passed = passed

\* t's test stands where the failure policy of the level puts it: ended
\* by the test-failure signal after a failing Hard assertion, in its body
\* after any other call.
FailurePolicy(t, level, passed) ==
    IF level = HARD /\ ~passed
    THEN ret.raised /\ pc[t] # "body" /\ report[t].call = "failed" /\ report[t].cause = "hard"
    ELSE ~ret.raised /\ pc[t] = "body" /\ report[t].call = "none"

\* C13: assert_length on a value that has no length (an int) appends
\* exactly one failing record of the requested level whose message says that
\* the object has no length, and the TypeError of len() does not leave the
\* call: Soft and Warning return normally, Hard ends the body with the
\* test-failure signal only.  assert_length on [1, 2, 3] with expected
\* length 3 appends one passing record and returns normally.
C13_AssertLengthNoLength ==
    \A t \in Threads :
        LatestHelper(t, "assert_length") =>
            /\ helper.a.type = "int" =>
                  /\ AppendedOne(helper.level, FALSE)
                  /\ Last(results).message =
                        "Object " \o ToString(helper.a.n)
                           \o " has no length: object of type 'int' has no len()"
                  /\ FailurePolicy(t, helper.level, FALSE)
                  /\ report[t].cause # "TypeError"
            /\ ( helper.a.type = "list" /\ helper.b = 3 ) =>
                  /\ AppendedOne(helper.level, TRUE)
                  /\ FailurePolicy(t, helper.level, TRUE)

\* assert_length(42, 3, level=SOFT) has returned: the tracker's last record
\* is a failing Soft one saying that 42 has no length, and the test is
\* still in its body.
C13_Witness ==
    \E t \in Threads :
        /\ LatestHelper(t, "assert_length")
        /\ helper.a = PyInt(42) /\ helper.b = 3 /\ helper.level = SOFT
        /\ pc[t] = "body"
        /\ Last(results).level = SOFT
        /\ ~Last(results).passed
        /\ Last(results).message
              = "Object 42 has no length: object of type 'int' has no len()"

\* C14: a helper whose comparison is undefined on its inputs (assert_contains
\* on an int as container, assert_greater_than / assert_less_than on an int
\* and a list, assert_length on an int) appends one failing record of the
\* requested level, and no TypeError leaves the call.
C14_UndefinedComparisonRecorded ==
    \A t \in Threads :
        ( \/ LatestHelper(t, "assert_contains") /\ helper.a.type = "int"
          \/ LatestHelper(t, "assert_greater_than") /\ helper.a.type # helper.b.type
          \/ LatestHelper(t, "assert_less_than") /\ helper.a.type # helper.b.type
          \/ LatestHelper(t, "assert_length") /\ helper.a.type = "int" )
        => /\ AppendedOne(helper.level, FALSE)
           /\ report[t].cause # "TypeError"

\* The result of the comparison of the latest helper call, false where the
\* comparison is undefined.
ComparisonResult ==
    CASE helper.op = "assert_equals" -> helper.a = helper.b
      [] helper.op = "assert_not_equals" -> helper.a # helper.b
      [] helper.op = "assert_contains" ->
            helper.a.type = "list" /\ helper.b.type = "int" /\ helper.b.n \in {1, 2, 3}
      [] helper.op = "assert_true" -> helper.a
      [] helper.op = "assert_false" -> ~helper.a
      [] helper.op = "assert_greater_than" ->
            helper.a.type = helper.b.type /\ helper.a.n > helper.b.n
      [] helper.op = "assert_less_than" ->
            helper.a.type = helper.b.type /\ helper.a.n < helper.b.n
      [] helper.op = "assert_length" -> helper.a.type = "list" /\ helper.b = 3

\* C15: every call of a comparison helper appends exactly one record, of
\* the level passed to the helper and with the result of the helper's
\* comparison as its passed flag, and the test stands where the failure
\* policy of that level puts it.
C15_HelperRecordsOneAtLevel ==
    \A t \in Threads :
        ( helper.op # "none" /\ helper.t = t /\ Running(t) ) =>
            /\ AppendedOne(helper.level, ComparisonResult)
            /\ FailurePolicy(t, helper.level, ComparisonResult)

\* C15 where it holds: as above for every helper call whose comparison is
\* defined on its inputs.
C15_DefinedComparisons ==
    \A t \in Threads :
        ( /\ helper.op # "none" /\ helper.t = t /\ Running(t)
          /\ helper.op \in {"assert_greater_than", "assert_less_than"}
                => helper.a.type = helper.b.type ) =>
            /\ AppendedOne(helper.level, ComparisonResult)
            /\ FailurePolicy(t, helper.level, ComparisonResult)

\* C17: get_response_status_code(response) returns the status code of the
\* response passed, whatever that code is; with no response passed it
\* returns the status code of last_response; and it raises ValueError
\* exactly when no response was passed and no request has been made.
C17_StatusCodeOfPassedResponse ==
    apiRet.kind # "none" =>
        /\ apiRet.passed # NoResponse
              => /\ apiRet.kind = "return"
                 /\ apiRet.value = apiRet.passed.status_code
        /\ ( apiRet.passed = NoResponse /\ apiRet.had # NoResponse )
              => /\ apiRet.kind = "return"
                 /\ apiRet.value = apiRet.had.status_code
        /\ apiRet.kind = "ValueError"
              <=> ( apiRet.passed = NoResponse /\ apiRet.had = NoResponse )

\* C17 where it holds: for a passed response with a status code below 400,
\* and for no passed response after a request answered below 400.
C17_OkResponses ==
    apiRet.kind # "none" =>
        /\ ( apiRet.passed # NoResponse /\ apiRet.passed.status_code < 400 )
              => /\ apiRet.kind = "return"
                 /\ apiRet.value = apiRet.passed.status_code
        /\ ( /\ apiRet.passed = NoResponse /\ apiRet.had # NoResponse
             /\ apiRet.had.status_code < 400 )
              => /\ apiRet.kind = "return"
                 /\ apiRet.value = apiRet.had.status_code
        /\ ( apiRet.passed = NoResponse /\ apiRet.had = NoResponse )
              => apiRet.kind = "ValueError"

\* C18: between resets the tracker only grows at its end.  A record* call
\* (the one step that extends a test's own list of calls) leaves the list
\* as it was with the record of that call appended; any other step that
\* changes the list is a reset(), which empties it.  So the order of the
\* records is the order of the calls.
C18_AppendOnly ==
    [][ /\ \A t \in Threads :
              Len(own'[t]) = Len(own[t]) + 1
                 => results' = Append(results, Last(own'[t]))
        /\ ( results' # results /\ \A t \in Threads : Len(own'[t]) # Len(own[t]) + 1 )
              => /\ results' = <<>>
                 /\ \/ ret'.op = "reset"
                    \/ ret'.op = "set_test_context" /\ ret'.prev = "reset"
      ]_vars

\* A test has made two record* calls with a get_summary() call between
\* them; the tracker holds the two records in the order of the calls.
C18_Witness ==
    \E t \in Threads :
        /\ pc[t] = "body"
        /\ ret.prev = "get_summary"
        /\ Len(results) = 2
        /\ results = own[t]
        /\ results[1].message = "m2" /\ results[1].level = SOFT /\ ~results[1].passed
        /\ results[2].message = "m1" /\ results[2].level = WARNING

\* C19: a record of the tracker has a traceback exactly when it is a
\* failing Soft record.
C19_TracebackIffFailingSoft ==
    \A i \in 1..Len(results) :
        results[i].traceback_info # None
            <=> ( results[i].level = SOFT /\ ~results[i].passed )

\* The tracker holds a failing Soft record, with a traceback, and a passing
\* Soft and a failing Warning record, without.
C19_Witness ==
    /\ \E i \in 1..Len(results) :
          /\ results[i].level = SOFT /\ ~results[i].passed
          /\ results[i].traceback_info = "stack"
    /\ \E i \in 1..Len(results) :
          /\ \/ results[i].level = SOFT /\ results[i].passed
             \/ results[i].level = WARNING /\ ~results[i].passed
          /\ results[i].traceback_info = None

\* The counts and lists of a summary s agree with each other and with the
\* list rs it was made over.
SummaryConsistent(s, rs) ==
    /\ s.total = Len(rs)
    /\ s.total = s.passed + s.failed
    /\ s.failed = Len(s.hard_failures) + Len(s.soft_failures) + Len(s.warning_failures)
    /\ s.warnings = Len(s.warning_failures)
    /\ s.hard_failures = FailingOf(rs, HARD)
    /\ s.soft_failures = FailingOf(rs, SOFT)
    /\ s.warning_failures = FailingOf(rs, WARNING)

\* C20: in every summary, total is the number of records and the sum of
\* passed and failed; failed is the sum of the lengths of the three failure
\* lists; warnings is the length of warning_failures; and each list holds
\* exactly the failing records of its level, in recording order.  This
\* holds of the summary of the tracker in every state, and of the summary
\* a test body holds from get_summary().
C20_SummaryArithmetic ==
    /\ SummaryConsistent(get_summary(results), results)
    /\ summaryOut # NoSummary => SummaryConsistent(summaryOut, results)

\* A test body holds the summary of a failing Soft and a failing Warning
\* record: failed = 2, warnings = 1, one entry in each of the two lists.
C20_Witness ==
    /\ summaryOut # NoSummary
    /\ summaryOut.total = 2 /\ summaryOut.failed = 2 /\ summaryOut.passed = 0
    /\ summaryOut.warnings = 1
    /\ Len(summaryOut.soft_failures) = 1
    /\ Len(summaryOut.warning_failures) = 1

\* C21: a finalize_assertions() call, from a test body or from the fixture,
\* leaves the records and the context as they were, whether it returns or
\* raises, so the summary after it has the counts it had before; and when
\* the call before it was a finalize_assertions() too, it ends as that one
\* did: the same normal return, or the same failure message.
C21_FinalizeChangesNothing ==
    [][ \A t \in Threads :
          ( FinalizeAssertions(t) \/ FixtureTeardown(t) ) =>
              /\ results' = results
              /\ test_context' = test_context
              /\ get_summary(results') = get_summary(results)
              /\ ret.op = "finalize_assertions"
                    => ret'.raised = ret.raised /\ ret'.msg = ret.msg
      ]_vars

\* finalize_assertions() raised in a test body and then again in the
\* fixture's teardown, with the same message; the two failing records are
\* still in the tracker.
C21_Witness ==
    \E t \in Threads :
        /\ pc[t] = "teardown_method"
        /\ report[t].cause = "finalize"
        /\ report[t].teardown = "error"
        /\ report[t].tdMsg = report[t].callMsg
        /\ get_summary(results).failed = 2
        /\ Len(results) = 2

\* The assertion keywords of the claim.
KeywordOps == {"assert_element_text", "assert_element_attribute", "assert_api_json_value"}

\* The "Failed to get" message of a keyword over the str() of an exception.
FailedToGet(op, text) ==
    CASE op = "assert_element_text" -> "Failed to get element text for assertion: " \o text
      [] op = "assert_element_attribute" -> "Failed to get element attribute for assertion: " \o text
      [] op = "assert_api_json_value" -> "Failed to get JSON value for assertion: " \o text

\* C22: a call of assert_element_text, assert_element_attribute or
\* assert_api_json_value appends exactly one record, of the requested
\* level.  When obtaining the actual value raised, the record is failing
\* and its message is the keyword's "Failed to get ..." message, and the
\* test goes on unless the level is Hard; when the value was obtained, the
\* record's passed flag is the result of the comparison, and after a
\* failing Hard comparison the test-failure signal ends the body with that
\* one record appended.
C22_KeywordAppendsOneRecord ==
    \A t \in Threads :
        ( helper.op \in KeywordOps /\ helper.t = t /\ Running(t) ) =>
            /\ Len(results) = helper.before + 1
            /\ Last(results).level = helper.level
            /\ helper.a.raised =>
                  /\ ~Last(results).passed
                  /\ Last(results).message = FailedToGet(helper.op, helper.a.value)
                  /\ FailurePolicy(t, helper.level, FALSE)
            /\ ~helper.a.raised =>
                  /\ Last(results).passed = (helper.a.value = helper.b)
                  /\ Last(results).message # FailedToGet(helper.op, "Failed")
                  /\ FailurePolicy(t, helper.level, helper.a.value = helper.b)

\* assert_element_text at Hard level read "Goodbye" where "Welcome" was
\* expected: the body has ended with the test-failure signal, and the
\* tracker holds the one record of the comparison.
C22_Witness ==
    \E t \in Threads :
        /\ helper.op = "assert_element_text" /\ helper.t = t
        /\ helper.level = HARD
        /\ ~helper.a.raised /\ helper.a.value = "Goodbye" /\ helper.b = "Welcome"
        /\ report[t].cause = "hard"
        /\ Len(results) = 1
        /\ Last(results).message = "Element text mismatch at loc"

\* The module-level functions that walk the registry.
RegistryWalks == {"quit_driver", "get_wait", "take_screenshot"}

\* C23: under every interleaving of get_instance calls with each other,
\* with cleanup_all_drivers and with the module-level functions, no two
\* DriverManager objects created since the latest clearing of the registry
\* have the same key; every registered instance was created under its key
\* since that clearing; and get_instance returns an instance created under
\* the key it was called with, the registered one as long as the key stays
\* registered.
C23_OneManagerPerKey ==
    /\ \A i, j \in 1..Len(managers) :
          ( i # j /\ managers[i].current /\ managers[j].current )
              => managers[i].key # managers[j].key
    /\ \A k \in 1..Len(instances) :
          /\ managers[instances[k].instance].current
          /\ managers[instances[k].instance].key = instances[k].key
    /\ driverRet.op = "get_instance" =>
          /\ managers[driverRet.instance].key = driverRet.value
          /\ InInstances(driverRet.value) => InstanceAt(driverRet.value) = driverRet.instance

\* A second manager was created under a key after the registry had been
\* cleared, and a later get_instance under that key has returned it
\* without creating a third.
C23_Witness ==
    /\ driverRet.op = "get_instance" /\ ~driverRet.created
    /\ managers[driverRet.instance].current
    /\ \E j \in 1..Len(managers) :
          /\ j # driverRet.instance
          /\ managers[j].key = driverRet.value
          /\ ~managers[j].current

\* C24: the module-level quit_driver(), get_wait() and take_screenshot()
\* act on an instance only when the calling thread created it.
C24_OnlyOwnInstances ==
    ( driverRet.op \in RegistryWalks /\ driverRet.instance # 0 ) =>
        managers[driverRet.instance].thread = driverRet.thread

\* C25: while a thread walks the registry in quit_driver(), get_wait() or
\* take_screenshot(), no other thread is inside the locked block of
\* get_instance or cleanup_all_drivers that inserts into it or clears it.
C25_NoWalkDuringUpdate ==
    \A a, b \in ThreadIdents :
        ( a # b /\ at[a].op \in RegistryWalks ) => lock # b

\* C26: after every completed DriverManager operation each manager holds a
\* wait exactly when it holds a driver; start_driver on a manager that
\* holds a driver creates no session and returns the held driver;
\* quit_driver ends with neither driver nor wait, also when quitting the
\* browser raised; a start_driver or restart_driver that raised leaves no
\* driver.
C26_DriverAndWaitTogether ==
    /\ \A i \in 1..Len(managers) :
          (managers[i].wait # None) <=> (managers[i].driver # None)
    /\ ( driverRet.op = "start_driver" /\ driverRet.before # None ) =>
          /\ ~driverRet.created /\ ~driverRet.raised
          /\ driverRet.value = driverRet.before
    /\ driverRet.op = "quit_driver" =>
          /\ managers[driverRet.instance].driver = None
          /\ managers[driverRet.instance].wait = None
    /\ ( driverRet.op \in {"start_driver", "restart_driver"} /\ driverRet.raised ) =>
          managers[driverRet.instance].driver = None

\* quit_driver on a manager holding a driver, the browser's quit() raising:
\* the manager holds neither driver nor wait.
C26_Witness ==
    /\ driverRet.op = "quit_driver" /\ driverRet.quit_raises
    /\ driverRet.before # None
    /\ managers[driverRet.instance].driver = None
    /\ managers[driverRet.instance].wait = None

\* C27: the driver that the module-level get_driver() returns is
\* responsive.
C27_GetDriverReturnsResponsive ==
    ( driverRet.op = "get_driver" /\ ~driverRet.raised ) =>
        driverRet.value = "responsive"

\* What holds of a click() call at each of its steps: it makes at most
\* max_attempts regular attempts; every error it went on after is a stale
\* or not-interactable error, one per attempt made before; the JavaScript
\* click is made at most once and only after max_attempts such errors; it
\* has returned exactly when a regular attempt or the JavaScript click
\* clicked the element; and the error it has raised is either another
\* kind of error, raised by the attempt that met it, or the last attempt's
\* stale or not-interactable error after the JavaScript click failed.
ClickBounded ==
    /\ click.attempt < max_attempts
    /\ Len(click.errors) <= max_attempts
    /\ \A k \in 1..Len(click.errors) :
          click.errors[k].kind \in Retryable /\ click.errors[k].attempt = k - 1
    /\ click.at \in {"try", "sleep"} =>
          Len(click.errors) = click.attempt + (IF click.at = "sleep" THEN 1 ELSE 0)
    /\ click.js <= 1
    /\ ( click.js = 1 \/ click.at = "js" ) => Len(click.errors) = max_attempts
    /\ click.at = "returned" <=> click.clicked # None
    /\ click.clicked = "javascript" <=> (click.js = 1 /\ click.at = "returned")
    /\ click.at = "raised" <=> click.raised # NoError
    /\ click.at = "raised" =>
          \/ /\ click.raised.kind \notin Retryable
             /\ click.js = 0
             /\ click.raised.attempt = Len(click.errors)
          \/ /\ click.js = 1
             /\ click.js_error # NoError
             /\ click.raised = click.errors[max_attempts]
             /\ click.raised.attempt = max_attempts - 1

\* C28: every click() call ends, returning or raising, and at each of its
\* steps ClickBounded holds.
C28_ClickTerminates ==
    /\ []ClickBounded
    /\ (click.at = "try") ~> (click.at \in {"returned", "raised"})

\* The third attempt met a stale element, the JavaScript click failed too,
\* and click() has raised the third attempt's error.
C28_Witness ==
    /\ click.at = "raised"
    /\ click.js = 1
    /\ click.js_error.kind = "JavascriptException"
    /\ click.raised = Error("StaleElementReferenceException", "click", 2)

\* C29: get_cached_data(k) after cache_data(k, v) returns v;
\* clear_cache(k) removes entry k and leaves the others, for every key k;
\* clear_cache() removes all entries; get_cached_data of an absent key
\* raises KeyError; and no get_cached_data changes the cache.
C29_CacheFrame ==
    /\ cacheRet.op = "cache_data" =>
          /\ cacheRet.key \in DOMAIN cached_data
          /\ cached_data[cacheRet.key] = cacheRet.data
    /\ cacheRet.op = "get_cached_data" =>
          /\ cached_data = cacheRet.before
          /\ cacheRet.raised <=> cacheRet.key \notin DOMAIN cached_data
          /\ ~cacheRet.raised => cacheRet.value = cached_data[cacheRet.key]
    /\ ( cacheRet.op = "clear_cache" /\ cacheRet.key # None ) =>
          cached_data = Without(cacheRet.before, cacheRet.key)
    /\ ( cacheRet.op = "clear_cache" /\ cacheRet.key = None ) =>
          cached_data = EmptyDict

\* C30: set_environment with a name that is no environment in any letter
\* case raises and leaves current_env as it was; with the name of an
\* environment in any letter case it sets current_env to the lower-case
\* name; and when the manager was constructed with a known environment,
\* current_env stays a known one, so get_config() does not raise.
C30_EnvironmentStaysKnown ==
    /\ ( envRet.op = "set_environment"
          /\ envRet.name \in {"qa", "QA"} ) =>
          envRet.raised /\ current_env = envRet.before
    /\ ( envRet.op = "set_environment"
          /\ envRet.name \in {"dev", "DEV"} ) =>
          ~envRet.raised /\ current_env = "dev"
    /\ ( envRet.op = "set_environment"
          /\ envRet.name \in {"staging", "Staging"} ) =>
          ~envRet.raised /\ current_env = "staging"
    /\ ( envRet.op = "set_environment"
          /\ envRet.name \in {"prod", "PROD"} ) =>
          ~envRet.raised /\ current_env = "prod"
    /\ initial_env \in Environments =>
          /\ current_env \in Environments
          /\ envRet.op = "get_config" => ~envRet.raised

\* A manager constructed for dev was set to prod through "PROD", and a
\* later set_environment("QA") has raised, leaving prod.
C30_Witness ==
    /\ initial_env = "dev"
    /\ envRet.op = "set_environment" /\ envRet.name = "QA" /\ envRet.raised
    /\ envRet.before = "prod"
    /\ current_env = "prod"

====
